---------------------------- MODULE Spec2Model ----------------------------
(***************************************************************************)
(* A model of getlantern/http-proxy-lantern: Proxy.ListenAndServe          *)
(* (http_proxy.go), the filter chain built by Proxy.createFilterChain,     *)
(* the transport builders and the listener registry, the serve loops, and  *)
(* the traversal of the served chain by the requests of one persistent     *)
(* connection; and, each under a specification of its own, the multiplex   *)
(* protocol configuration, the ping middleware, the HTTPS-upgrade filter,  *)
(* the origin dialer, the shadowsocks local listener, the packet counter,  *)
(* the ops filter and the pro configuration of the pro filter.             *)
(***************************************************************************)
EXTENDS Integers, Sequences, FiniteSets, TLC

VARIABLES
    pro,                \* the proConfig, its pro filter and the message handled last
    tracked,            \* the request opsfilter.Apply saw last and what it recorded
    counter,            \* the flows of Track, and what it did with its last packet
    local,              \* the shadowsocks local listener and where its inbound connections went
    dialer,             \* the origin dialer: its calls and the operations of the last one
    upgrade,            \* the HTTPS-upgrade filter: its last request, in and out
    ping,               \* the PingMiddleware and what it did with its last request
    p,                  \* the Proxy struct: the fields ListenAndServe reads and writes
    configured,         \* the Proxy fields as configured, before ListenAndServe ran
    pc,                 \* position of ListenAndServe
    built,              \* filters.Chain returned by createFilterChain
    dialerForPforward,  \* the forward dialer captured by the returned DialFunc
    vcErr,              \* whether versioncheck.New returned an error
    filterChain,        \* the chain handed to server.New (Opts.Filter)
    regIdx,             \* index of the next addListenerIfNecessary call
    allListeners,       \* ListenAndServe's allListeners: wrapper stacks
    listenerProtocols,  \* ListenAndServe's listenerProtocols
    builderCalls,       \* protocol names whose builder function was invoked
    err,                \* the error ListenAndServe returned ("" when none)
    reqNum,             \* requests already seen on the current connection
    last,               \* what the last request traversed and dialed
    builderErr,         \* the error the last failing builder returned ("" when none)
    tasks,              \* the serve loops started, one record per srv.Serve call
    errCh,              \* the values sent on errCh, in the order sent
    muxConfig           \* the configuration the multiplex protocol was built with

\* The state of ListenAndServe and of the server it starts.
serverVars == <<p, configured, pc, built, dialerForPforward, vcErr, filterChain, regIdx,
                allListeners, listenerProtocols, builderCalls, err, reqNum, last,
                builderErr, tasks, errCh, muxConfig>>

\* The state of the filters and libraries modelled on their own.
componentVars == <<ping, upgrade, dialer, local, counter, tracked, pro>>

vars == <<serverVars, componentVars>>

-----------------------------------------------------------------------------
(* Bounds                                                                   *)

\* Requests followed on one persistent connection.
MaxRequests == 2

\* Transports with a non-empty listen address in one configuration of the
\* registry specification.
MaxConfigured == 2

-----------------------------------------------------------------------------
(* Values                                                                   *)

BenchToken == "bench"
Tokens == {"", "tok"}
Addrs == {"", ":1"}
NoErr == ""

OriginDialer == "dialer"
VersionCheckDialer == "vc.Dialer(dialer)"

-----------------------------------------------------------------------------
(* Filters and chains (github.com/getlantern/proxy/v2/filters)              *)

F(n) == [name |-> n, firstOnly |-> FALSE]

\* Mutant of OnFirstOnly: the wrapper is lost and the filter runs on every request.
OnFirstOnlyDropped(f) == f

\* proxy.OnFirstOnly: the wrapped filter is applied to the first request of a
\* connection only and bypassed afterwards.
OnFirstOnly(f) == [f EXCEPT !.firstOnly = TRUE]

Join(fs) == fs
ChainAppend(chain, fs) == chain \o fs
ChainPrepend(chain, f) == <<f>> \o chain

Names(chain) == {chain[i].name : i \in 1..Len(chain)}
Has(chain, n) == n \in Names(chain)
IndexOf(chain, n) == CHOOSE i \in 1..Len(chain) : chain[i].name = n
Count(chain, n) == Cardinality({i \in 1..Len(chain) : chain[i].name = n})

\* The ping filter answers a request that carries the ping header and does not
\* call next (ping.go); the HTTPS-upgrade filter sends a matching request through
\* its own HTTP client.
AnsweringInSource == {"ping", "httpsupgrade"}

\* The other filters that may end the chain early with a response of their own
\* (rate limit, authentication failure, blocked address or port, redirect,
\* discarded request).
AnsweringElsewhere ==
    {"ratelimit", "tokenfilter", "blocklocal", "versioncheck", "discardinitial",
     "restrictports"}

\* The filters that may answer a request themselves instead of calling next.
ShortCircuiting == AnsweringInSource \cup AnsweringElsewhere

-----------------------------------------------------------------------------
(* Proxy.setBenchmarkMode                                                   *)

\* Mutant of setBenchmarkMode: the token is forced but secure mode is not.
setBenchmarkModeTokenOnly(pp) ==
    IF pp.Benchmark THEN [pp EXCEPT !.Token = BenchToken] ELSE pp


setBenchmarkMode(pp) ==
    IF pp.Benchmark
    THEN [pp EXCEPT !.HTTPS = TRUE, !.Token = BenchToken]
    ELSE pp

-----------------------------------------------------------------------------
(* Proxy.createFilterChain                                                  *)

\* Mutant of TailFilters: header sanitization is moved ahead of the recorder.
TailFiltersReordered ==
    <<F("discardinitial"), F("forwardedfor"), F("httpsupgrade"),
      F("restrictports"), F("cleanheaders"), F("recordop")>>

\* The filters appended unconditionally at the end of createFilterChain.
TailFilters ==
    <<F("discardinitial"), F("forwardedfor"), F("httpsupgrade"),
      F("restrictports"), F("recordop"), F("cleanheaders")>>

\* Mutant of AuthFilter: the benchmark flag is ignored.
AuthFilterAlwaysToken(pp) == OnFirstOnly(F("tokenfilter"))


AuthFilter(pp) ==
    IF pp.Benchmark THEN F("ratelimit") ELSE OnFirstOnly(F("tokenfilter"))

\* Mutant of VersionCheckBuilt: the error of versioncheck.New is ignored.
VersionCheckBuiltIgnoringErr(pp, vcFails) == pp.VersionCheck

\* The else branch of "if err != nil" under "if p.VersionCheck" is taken.
VersionCheckBuilt(pp, vcFails) == pp.VersionCheck /\ ~vcFails

\* Proxy.allowedTunnelPorts: a malformed TunnelPorts list ends the process
\* (log.Fatal); an unset one allows every port.
allowedTunnelPorts(malformed) == IF malformed THEN "fatal" ELSE "ports"

\* vcFails: versioncheck.New returns an error. malformedPorts: TunnelPorts does
\* not parse.
createFilterChain(pp, vcFails, malformedPorts) ==
    LET c0 == Join(<<F("bm")>>)
        c1 == ChainAppend(c0, <<AuthFilter(pp)>>)
        c2 == ChainAppend(c1, <<OnFirstOnly(F("googlefilter"))>>)
        c3 == IF ~pp.TestingLocal THEN ChainAppend(c2, <<F("blocklocal")>>) ELSE c2
        c4 == ChainAppend(c3, <<F("ping")>>)
        vc == VersionCheckBuilt(pp, vcFails)
        c5 == IF vc THEN ChainAppend(c4, <<F("versioncheck")>>) ELSE c4
        c6 == ChainAppend(c5, TailFilters)
    IN  [chain |-> c6,
         dialerForPforward |-> IF vc THEN VersionCheckDialer ELSE OriginDialer,
         err |-> NoErr,
         fatal |-> allowedTunnelPorts(malformedPorts) = "fatal"]

\* Mutant of DialFunc: every call takes the forward path.
DialFuncAlwaysForward(isCONNECT, forward) == forward

\* The DialFunc returned by createFilterChain.
DialFunc(isCONNECT, forward) ==
    IF isCONNECT THEN OriginDialer ELSE forward

\* Mutant of ServedChain: the WSS middleware is prepended like the QUIC one.
ServedChainWSSPrepended(pp, chain) ==
    LET c1 == IF pp.QUICIETFAddr # "" THEN ChainPrepend(chain, F("quic")) ELSE chain
        c2 == IF pp.WSSAddr # "" THEN ChainPrepend(c1, F("wss")) ELSE c1
    IN  ChainPrepend(c2, F("opsfilter"))

\* ListenAndServe, after createFilterChain: the chain handed to server.New.
ServedChain(pp, chain) ==
    LET c1 == IF pp.QUICIETFAddr # "" THEN ChainPrepend(chain, F("quic")) ELSE chain
        c2 == IF pp.WSSAddr # "" THEN ChainAppend(c1, <<F("wss")>>) ELSE c1
    IN  ChainPrepend(c2, F("opsfilter"))

\* Mutant of ENHTTPChain: the token filter is wrapped as in the main chain and
\* applied to the first request of a connection only.
ENHTTPChainTokenOnFirstOnly == Join(<<OnFirstOnly(F("tokenfilter")), F("ping")>>)

\* Proxy.ListenAndServeENHTTP: filters.Join(tokenfilter.New(p.Token), ping.New(0)).
ENHTTPChain == Join(<<F("tokenfilter"), F("ping")>>)

-----------------------------------------------------------------------------
(* One request through a chain                                              *)

\* stop: the filter that answers this request itself when it is applied
\* ("none": every applied filter calls next). first: the request is the first of
\* its connection. The result lists the filters applied, the filters bypassed,
\* and the filter that answered ("none": the request left the chain).
RECURSIVE Traverse(_, _, _, _, _, _)
Traverse(chain, i, first, stop, applied, bypassed) ==
    IF i > Len(chain)
    THEN [applied |-> applied, bypassed |-> bypassed, stoppedBy |-> "none"]
    ELSE LET f == chain[i] IN
         IF f.firstOnly /\ ~first
         THEN Traverse(chain, i + 1, first, stop, applied, Append(bypassed, f.name))
         ELSE IF f.name = stop
              THEN [applied |-> Append(applied, f.name), bypassed |-> bypassed,
                    stoppedBy |-> f.name]
              ELSE Traverse(chain, i + 1, first, stop, Append(applied, f.name), bypassed)

NoRequest ==
    [n |-> 0, first |-> FALSE, isCONNECT |-> FALSE, applied |-> <<>>,
     bypassed |-> <<>>, stoppedBy |-> "none", dialed |-> "none"]

-----------------------------------------------------------------------------
(* Transport builders: each returns the wrapper stack of the listener it    *)
(* builds (innermost layer first), or an error. fail names the step of the  *)
(* build that fails ("none": every step succeeds).                          *)

FailPoints == {"none", "listen", "wrap", "tls"}
MuxProtocols == {"", "smux", "psmux", "bogus"}

Ok(stack) == [err |-> NoErr, stack |-> stack, fatal |-> FALSE]
Fail(e) == [err |-> e, stack |-> <<>>, fatal |-> FALSE]
\* log.Fatalf: the process exits.
Fatal(e) == [err |-> e, stack |-> <<>>, fatal |-> TRUE]

Layer(cond, name) == IF cond THEN <<name>> ELSE <<>>

\* Mutant of listenTCP: the idle-timeout wrapper is never applied.
listenTCPWithoutIdle(pp, wrapBBR, fail) ==
    IF fail = "listen"
    THEN Fail("listen")
    ELSE Ok(<<"tcp">> \o Layer(pp.DiffServTOS > 0, "diffserv")
                      \o Layer(wrapBBR, "bbr"))

listenTCP(pp, wrapBBR, fail) ==
    IF fail = "listen"
    THEN Fail("listen")
    ELSE Ok(<<"tcp">> \o Layer(pp.IdleTimeout > 0, "idle")
                      \o Layer(pp.DiffServTOS > 0, "diffserv")
                      \o Layer(wrapBBR, "bbr"))

listenHTTP(pp, fail) ==
    LET l == listenTCP(pp, TRUE, fail)
    IN  IF l.err # NoErr THEN Fail("Unable to listen for HTTP") ELSE l

listenOBFS4(pp, fail) ==
    LET l == listenTCP(pp, TRUE, fail)
    IN  IF l.err # NoErr THEN Fail("Unable to listen for OBFS4")
        ELSE IF fail = "wrap" THEN Fail("Unable to wrap listener with OBFS4")
        ELSE Ok(Append(l.stack, "obfs4"))

listenLampshade(pp, trackBBR, fail) ==
    LET l == listenTCP(pp, FALSE, fail)
    IN  IF l.err # NoErr THEN l
        ELSE IF fail = "wrap" THEN Fatal("Unable to initialize lampshade with tcp")
        ELSE Ok(Append(l.stack, "lampshade") \o Layer(trackBBR, "bbr") \o <<"idle">>)

listenTLSMasq(pp, fail) ==
    LET l == listenTCP(pp, FALSE, fail)
    IN  IF l.err # NoErr THEN l
        ELSE IF fail = "wrap" THEN Fatal("unable to wrap listener with tlsmasq")
        ELSE Ok(Append(l.stack, "tlsmasq"))

listenKCP(pp, fail) ==
    IF fail = "listen" THEN Fail("Unable to open KCPConf")
    ELSE IF fail = "wrap" THEN Fail("Unable to decode KCPConf")
    ELSE Ok(<<"kcp">> \o Layer(pp.IdleTimeout > 0, "idleconn"))

listenQUICIETF(pp, fail) ==
    IF fail = "tls" THEN Fail("tlsdefaults")
    ELSE IF fail = "listen" THEN Fail("quicwrapper")
    ELSE Ok(<<"quic">>)

listenShadowsocks(pp, fail) ==
    IF fail = "wrap" THEN Fail("Unable to create shadowsocks cipher")
    ELSE IF fail = "listen" THEN Fail("Unable to listen for shadowsocks")
    ELSE Ok(<<"shadowsocks">>)

listenWSS(pp, fail) ==
    LET l == listenTCP(pp, TRUE, fail)
    IN  IF l.err # NoErr THEN Fail("Unable to listen for wss")
        ELSE IF pp.HTTPS /\ fail = "tls" THEN Fail("tlslistener")
        ELSE IF fail = "wrap" THEN Fail("tinywss")
        ELSE Ok(l.stack \o Layer(pp.HTTPS, "tls") \o <<"wss">>)

\* Mutant of wrapTLSIfNecessary: the listener is wrapped whatever HTTPS is.
wrapTLSAlways(pp, r, fail) ==
    IF r.err # NoErr THEN r
    ELSE IF fail = "tls" THEN Fail("tlslistener") ELSE Ok(Append(r.stack, "tls"))

\* r: the result of the wrapped builder, invoked with the same address.
wrapTLSIfNecessary(pp, r, fail) ==
    IF r.err # NoErr THEN r
    ELSE IF pp.HTTPS
         THEN IF fail = "tls" THEN Fail("tlslistener") ELSE Ok(Append(r.stack, "tls"))
         ELSE r

\* Mutant of wrapMultiplexing: psmux is the default protocol.
wrapMultiplexingDefaultPsmux(pp, r) ==
    IF r.err # NoErr THEN r
    ELSE IF pp.MultiplexProtocol = "smux"
         THEN Ok(Append(r.stack, "smux"))
    ELSE IF pp.MultiplexProtocol = "" \/ pp.MultiplexProtocol = "psmux"
         THEN Ok(Append(r.stack, "psmux"))
    ELSE Fail("unknown multiplex protocol")

\* Mutant of wrapMultiplexing: an unknown protocol name falls back to smux.
wrapMultiplexingFallback(pp, r) ==
    IF r.err # NoErr THEN r
    ELSE IF pp.MultiplexProtocol = "psmux"
         THEN Ok(Append(r.stack, "psmux"))
    ELSE Ok(Append(r.stack, "smux"))

wrapMultiplexing(pp, r) ==
    IF r.err # NoErr THEN r
    ELSE IF pp.MultiplexProtocol = "" \/ pp.MultiplexProtocol = "smux"
         THEN Ok(Append(r.stack, "smux"))
    ELSE IF pp.MultiplexProtocol = "psmux"
         THEN Ok(Append(r.stack, "psmux"))
    ELSE Fail("unknown multiplex protocol")

\* The addListenerIfNecessary calls of ListenAndServe, in the order made.
Transports ==
    <<[proto |-> "kcp",                   field |-> "KCPConf"],
      [proto |-> "quic_ietf",             field |-> "QUICIETFAddr"],
      [proto |-> "shadowsocks",           field |-> "ShadowsocksAddr"],
      [proto |-> "shadowsocks_multiplex", field |-> "ShadowsocksMultiplexAddr"],
      [proto |-> "wss",                   field |-> "WSSAddr"],
      [proto |-> "obfs4",                 field |-> "Obfs4Addr"],
      [proto |-> "obfs4_multiplex",       field |-> "Obfs4MultiplexAddr"],
      [proto |-> "lampshade",             field |-> "LampshadeAddr"],
      [proto |-> "https",                 field |-> "HTTPAddr"],
      [proto |-> "https_multiplex",       field |-> "HTTPMultiplexAddr"],
      [proto |-> "tlsmasq",               field |-> "TLSMasqAddr"]>>

\* Mutant of Builder: https_multiplex multiplexes the plain HTTP listener.
BuilderMuxOverPlainHTTP(proto, pp, fail) ==
    CASE proto = "kcp" -> wrapTLSIfNecessary(pp, listenKCP(pp, fail), fail)
      [] proto = "quic_ietf" -> listenQUICIETF(pp, fail)
      [] proto = "shadowsocks" -> listenShadowsocks(pp, fail)
      [] proto = "shadowsocks_multiplex" -> wrapMultiplexing(pp, listenShadowsocks(pp, fail))
      [] proto = "wss" -> listenWSS(pp, fail)
      [] proto = "obfs4" -> listenOBFS4(pp, fail)
      [] proto = "obfs4_multiplex" -> wrapMultiplexing(pp, listenOBFS4(pp, fail))
      [] proto = "lampshade" -> listenLampshade(pp, TRUE, fail)
      [] proto = "https" -> wrapTLSIfNecessary(pp, listenHTTP(pp, fail), fail)
      [] proto = "https_multiplex" -> wrapMultiplexing(pp, listenHTTP(pp, fail))
      [] proto = "tlsmasq" -> wrapMultiplexing(pp, listenTLSMasq(pp, fail))

\* The builder function passed to addListenerIfNecessary for each protocol.
Builder(proto, pp, fail) ==
    CASE proto = "kcp" -> wrapTLSIfNecessary(pp, listenKCP(pp, fail), fail)
      [] proto = "quic_ietf" -> listenQUICIETF(pp, fail)
      [] proto = "shadowsocks" -> listenShadowsocks(pp, fail)
      [] proto = "shadowsocks_multiplex" -> wrapMultiplexing(pp, listenShadowsocks(pp, fail))
      [] proto = "wss" -> listenWSS(pp, fail)
      [] proto = "obfs4" -> listenOBFS4(pp, fail)
      [] proto = "obfs4_multiplex" -> wrapMultiplexing(pp, listenOBFS4(pp, fail))
      [] proto = "lampshade" -> listenLampshade(pp, TRUE, fail)
      [] proto = "https" -> wrapTLSIfNecessary(pp, listenHTTP(pp, fail), fail)
      [] proto = "https_multiplex" ->
            wrapMultiplexing(pp, wrapTLSIfNecessary(pp, listenHTTP(pp, fail), fail))
      [] proto = "tlsmasq" -> wrapMultiplexing(pp, listenTLSMasq(pp, fail))

\* Mutant of addListenerIfNecessary: the empty-address check is missing.
addListenerAlways(reg, proto, addr, pp, fail) ==
    LET r == Builder(proto, pp, fail)
        called == reg.calls \cup {proto}
    IN  IF r.err # NoErr
        THEN [reg EXCEPT !.calls = called, !.err = r.err, !.fatal = r.fatal]
        ELSE [listeners |-> Append(reg.listeners, r.stack),
              protocols |-> Append(reg.protocols, proto),
              calls |-> called, err |-> NoErr, fatal |-> FALSE]

\* Mutant of addListenerIfNecessary: a builder's error is logged and skipped.
addListenerSkippingErrors(reg, proto, addr, pp, fail) ==
    IF addr = ""
    THEN [reg EXCEPT !.err = NoErr, !.fatal = FALSE]
    ELSE LET r == Builder(proto, pp, fail)
             called == reg.calls \cup {proto}
         IN  IF r.err # NoErr
             THEN [reg EXCEPT !.calls = called, !.err = NoErr, !.fatal = FALSE]
             ELSE [listeners |-> Append(reg.listeners, r.stack),
                   protocols |-> Append(reg.protocols, proto),
                   calls |-> called, err |-> NoErr, fatal |-> FALSE]

\* Mutant of addListenerIfNecessary: the protocol label is appended before the
\* builder's error is looked at.
addListenerLabelFirst(reg, proto, addr, pp, fail) ==
    IF addr = ""
    THEN [reg EXCEPT !.err = NoErr, !.fatal = FALSE]
    ELSE LET r == Builder(proto, pp, fail)
             called == reg.calls \cup {proto}
         IN  IF r.err # NoErr
             THEN [reg EXCEPT !.protocols = Append(reg.protocols, proto),
                              !.calls = called, !.err = r.err, !.fatal = r.fatal]
             ELSE [listeners |-> Append(reg.listeners, r.stack),
                   protocols |-> Append(reg.protocols, proto),
                   calls |-> called, err |-> NoErr, fatal |-> FALSE]

\* The closure addListenerIfNecessary of ListenAndServe. reg holds the two
\* lists it appends to, and the builders invoked so far.
addListenerIfNecessary(reg, proto, addr, pp, fail) ==
    IF addr = ""
    THEN [reg EXCEPT !.err = NoErr, !.fatal = FALSE]
    ELSE LET r == Builder(proto, pp, fail)
             called == reg.calls \cup {proto}
         IN  IF r.err # NoErr
             THEN [reg EXCEPT !.calls = called, !.err = r.err, !.fatal = r.fatal]
             ELSE [listeners |-> Append(reg.listeners, r.stack),
                   protocols |-> Append(reg.protocols, proto),
                   calls |-> called, err |-> NoErr, fatal |-> FALSE]

-----------------------------------------------------------------------------
(* buildSmuxProtocol and buildPsmuxProtocol: the configuration the multiplex *)
(* protocol is created with. Ratios are counted in units of their smallest   *)
(* step.                                                                     *)

\* The largest override value supplied.
MaxOverride == 2

\* An override is negative, zero (not supplied) or positive.
Overrides == -1..MaxOverride

\* The value DefaultConfig() gives a field: positive, and no override value.
LibraryDefault == 9

SmuxFields == {"Version", "MaxFrameSize", "MaxReceiveBuffer", "MaxStreamBuffer"}

PsmuxFields ==
    SmuxFields \cup {"MaxPaddingRatio", "MaxPaddedSize", "AggressivePadding",
                     "AggressivePaddingRatio"}

\* smux.DefaultConfig(), psmux.DefaultConfig()
DefaultConfig(fields) == [f \in fields |-> LibraryDefault]

\* Mutant of Override: a zero override is applied too.
OverrideFromZero(config, field, v) ==
    IF v >= 0 THEN [config EXCEPT ![field] = v] ELSE config

\* if v > 0 { config.field = v }
Override(config, field, v) ==
    IF v > 0 THEN [config EXCEPT ![field] = v] ELSE config

Zero(config, fields) ==
    [f \in DOMAIN config |-> IF f \in fields THEN 0 ELSE config[f]]

buildSmuxProtocol(pp) ==
    LET c0 == DefaultConfig(SmuxFields)
        c1 == Override(c0, "Version", pp.SmuxVersion)
        c2 == Override(c1, "MaxFrameSize", pp.SmuxMaxFrameSize)
        c3 == Override(c2, "MaxReceiveBuffer", pp.SmuxMaxReceiveBuffer)
        c4 == Override(c3, "MaxStreamBuffer", pp.SmuxMaxStreamBuffer)
    IN  [protocol |-> "smux", config |-> c4]

\* Mutant of buildPsmuxProtocol: PsmuxDisablePadding zeroes the ratio and the
\* size only, and the aggressive-padding fields follow their own switch.
buildPsmuxProtocolSeparateSwitches(pp) ==
    LET c0 == DefaultConfig(PsmuxFields)
        c1 == Override(c0, "Version", pp.PsmuxVersion)
        c2 == Override(c1, "MaxFrameSize", pp.PsmuxMaxFrameSize)
        c3 == Override(c2, "MaxReceiveBuffer", pp.PsmuxMaxReceiveBuffer)
        c4 == Override(c3, "MaxStreamBuffer", pp.PsmuxMaxStreamBuffer)
        c5 == IF pp.PsmuxDisablePadding
              THEN Zero(c4, {"MaxPaddingRatio", "MaxPaddedSize"})
              ELSE Override(Override(c4, "MaxPaddingRatio", pp.PsmuxMaxPaddingRatio),
                            "MaxPaddedSize", pp.PsmuxMaxPaddedSize)
        c6 == IF pp.PsmuxDisableAggressivePadding
              THEN Zero(c5, {"AggressivePadding", "AggressivePaddingRatio"})
              ELSE Override(Override(c5, "AggressivePadding", pp.PsmuxAggressivePadding),
                            "AggressivePaddingRatio", pp.PsmuxAggressivePaddingRatio)
    IN  [protocol |-> "psmux", config |-> c6]

\* Mutant of buildPsmuxProtocol: PsmuxDisableAggressivePadding is read before
\* the ratio and size overrides are applied, and skips them.
buildPsmuxProtocolAggressiveSwitchFirst(pp) ==
    LET c0 == DefaultConfig(PsmuxFields)
        c1 == Override(c0, "Version", pp.PsmuxVersion)
        c2 == Override(c1, "MaxFrameSize", pp.PsmuxMaxFrameSize)
        c3 == Override(c2, "MaxReceiveBuffer", pp.PsmuxMaxReceiveBuffer)
        c4 == Override(c3, "MaxStreamBuffer", pp.PsmuxMaxStreamBuffer)
        c5 == Override(c4, "MaxPaddingRatio", pp.PsmuxMaxPaddingRatio)
        c6 == Override(c5, "MaxPaddedSize", pp.PsmuxMaxPaddedSize)
    IN  [protocol |-> "psmux",
         config |->
            IF pp.PsmuxDisablePadding
            THEN Zero(c4, {"MaxPaddingRatio", "MaxPaddedSize",
                           "AggressivePadding", "AggressivePaddingRatio"})
            ELSE IF pp.PsmuxDisableAggressivePadding
                 THEN Zero(c4, {"AggressivePadding", "AggressivePaddingRatio"})
                 ELSE Override(Override(c6, "AggressivePadding",
                                        pp.PsmuxAggressivePadding),
                               "AggressivePaddingRatio",
                               pp.PsmuxAggressivePaddingRatio)]

buildPsmuxProtocol(pp) ==
    LET c0 == DefaultConfig(PsmuxFields)
        c1 == Override(c0, "Version", pp.PsmuxVersion)
        c2 == Override(c1, "MaxFrameSize", pp.PsmuxMaxFrameSize)
        c3 == Override(c2, "MaxReceiveBuffer", pp.PsmuxMaxReceiveBuffer)
        c4 == Override(c3, "MaxStreamBuffer", pp.PsmuxMaxStreamBuffer)
        c5 == Override(c4, "MaxPaddingRatio", pp.PsmuxMaxPaddingRatio)
        c6 == Override(c5, "MaxPaddedSize", pp.PsmuxMaxPaddedSize)
    IN  [protocol |-> "psmux",
         config |->
            IF pp.PsmuxDisablePadding
            THEN Zero(c4, {"MaxPaddingRatio", "MaxPaddedSize",
                           "AggressivePadding", "AggressivePaddingRatio"})
            ELSE IF pp.PsmuxDisableAggressivePadding
                 THEN Zero(c6, {"AggressivePadding", "AggressivePaddingRatio"})
                 ELSE Override(Override(c6, "AggressivePadding",
                                        pp.PsmuxAggressivePadding),
                               "AggressivePaddingRatio",
                               pp.PsmuxAggressivePaddingRatio)]

\* The protocol the closure of wrapMultiplexing builds for its listener.
buildProtocol(pp) ==
    IF pp.MultiplexProtocol = "" \/ pp.MultiplexProtocol = "smux"
    THEN buildSmuxProtocol(pp)
    ELSE IF pp.MultiplexProtocol = "psmux"
         THEN buildPsmuxProtocol(pp)
         ELSE [protocol |-> "error", config |-> <<>>]

-----------------------------------------------------------------------------
(* ping.PingMiddleware                                                       *)

\* Ping requests followed.
MaxPings == 4

\* The copies of data written for each ping size.
SmallSize == 1
MediumSize == 100
LargeSize == 10000

\* len(data): the block written once per copy.
DataLen == 1024

\* The ping header of a request: absent, or present with a value.
PingHeaders ==
    {[present |-> FALSE, value |-> ""]} \cup
    {[present |-> TRUE, value |-> v] :
        v \in {"", "small", "medium", "large", "Small", "huge"}}

\* req.Header.Get(common.PingHeader)
HeaderGet(h) == IF h.present THEN h.value ELSE ""

\* What ServeHTTP did with the last request: the status it wrote (0: none),
\* the copies of data and the other bytes it wrote, the calls of the next
\* handler, and the moving average it updated ("none": none).
NoResponse ==
    [status |-> 0, copies |-> 0, bodyLen |-> 0, message |-> FALSE, nextCalls |-> 0,
     updated |-> "none"]

\* A middleware as New returns it, with the Update calls each moving average
\* has received.
NewPing ==
    [n |-> 0, updates |-> [small |-> 0, medium |-> 0, large |-> 0],
     before |-> [small |-> 0, medium |-> 0, large |-> 0],
     header |-> [present |-> FALSE, value |-> ""], resp |-> NoResponse]

\* The ping with its copies written, flushed and timed.
Respond(pm, h, ma, size) ==
    [n |-> pm.n + 1, updates |-> [pm.updates EXCEPT ![ma] = @ + 1],
     before |-> pm.updates, header |-> h,
     resp |-> [NoResponse EXCEPT !.status = 200, !.copies = size,
                                 !.bodyLen = size * DataLen, !.updated = ma]]

\* Mutant of ServeHTTP: the medium ping is timed on the small moving average.
ServeHTTPMediumTimedAsSmall(pm, h) ==
    LET pingSize == HeaderGet(h)
    IN  IF pingSize = ""
        THEN [pm EXCEPT !.n = @ + 1, !.before = pm.updates, !.header = h,
                        !.resp = [NoResponse EXCEPT !.nextCalls = 1]]
        ELSE CASE pingSize = "small" -> Respond(pm, h, "small", SmallSize)
               [] pingSize = "medium" -> Respond(pm, h, "small", MediumSize)
               [] pingSize = "large" -> Respond(pm, h, "large", LargeSize)
               [] OTHER ->
                    [pm EXCEPT !.n = @ + 1, !.before = pm.updates, !.header = h,
                               !.resp = [NoResponse EXCEPT !.status = 400,
                                                           !.message = TRUE]]

\* Mutant of ServeHTTP: an unknown ping size is passed to the next handler.
ServeHTTPUnknownPassed(pm, h) ==
    LET pingSize == HeaderGet(h)
    IN  IF pingSize = ""
        THEN [pm EXCEPT !.n = @ + 1, !.before = pm.updates, !.header = h,
                        !.resp = [NoResponse EXCEPT !.nextCalls = 1]]
        ELSE CASE pingSize = "small" -> Respond(pm, h, "small", SmallSize)
               [] pingSize = "medium" -> Respond(pm, h, "medium", MediumSize)
               [] pingSize = "large" -> Respond(pm, h, "large", LargeSize)
               [] OTHER ->
                    [pm EXCEPT !.n = @ + 1, !.before = pm.updates, !.header = h,
                               !.resp = [NoResponse EXCEPT !.nextCalls = 1]]

\* Mutant of ServeHTTP: an empty header value is answered as a bad ping.
ServeHTTPEmptyRejected(pm, h) ==
    LET pingSize == HeaderGet(h)
    IN  IF ~h.present
        THEN [pm EXCEPT !.n = @ + 1, !.before = pm.updates, !.header = h,
                        !.resp = [NoResponse EXCEPT !.nextCalls = 1]]
        ELSE CASE pingSize = "small" -> Respond(pm, h, "small", SmallSize)
               [] pingSize = "medium" -> Respond(pm, h, "medium", MediumSize)
               [] pingSize = "large" -> Respond(pm, h, "large", LargeSize)
               [] OTHER ->
                    [pm EXCEPT !.n = @ + 1, !.before = pm.updates, !.header = h,
                               !.resp = [NoResponse EXCEPT !.status = 400,
                                                           !.message = TRUE]]

\* PingMiddleware.ServeHTTP, over a ResponseWriter that is an http.Flusher.
ServeHTTP(pm, h) ==
    LET pingSize == HeaderGet(h)
    IN  IF pingSize = ""
        THEN [pm EXCEPT !.n = @ + 1, !.before = pm.updates, !.header = h,
                        !.resp = [NoResponse EXCEPT !.nextCalls = 1]]
        ELSE CASE pingSize = "small" -> Respond(pm, h, "small", SmallSize)
               [] pingSize = "medium" -> Respond(pm, h, "medium", MediumSize)
               [] pingSize = "large" -> Respond(pm, h, "large", LargeSize)
               [] OTHER ->
                    [pm EXCEPT !.n = @ + 1, !.before = pm.updates, !.header = h,
                               !.resp = [NoResponse EXCEPT !.status = 400,
                                                           !.message = TRUE]]

-----------------------------------------------------------------------------
(* httpsupgrade: the HTTPS-upgrade filter                                    *)

\* Requests the filter is followed over.
MaxUpgrades == 2

Methods == {"GET", "HEAD", "PUT", "POST", "DELETE", "OPTIONS", "CONNECT"}

\* The hosts of the upgrade policy, and hosts outside it.
UpgradeHosts == {"config.getiantem.org", "api.getiantem.org"}
OtherHosts == {"not-config-server.org", "getiantem.org"}

\* A request: its method, the scheme of its URL and its Host, as a name and a
\* port ("": none given).
UpgradeRequests ==
    [method : Methods, scheme : {"http"}, host : UpgradeHosts \cup OtherHosts,
     port : {"", "80"}]

\* Mutant of Upgrade: CONNECT requests to a host of the policy are rewritten too.
UpgradeAnyMethod(req) ==
    IF req.host \in UpgradeHosts
    THEN [req |-> [req EXCEPT !.scheme = "https", !.port = "443"], to |-> "client"]
    ELSE [req |-> req, to |-> "next"]

\* The filter applied to a request: the request as it leaves the filter, and
\* where it goes: to the filter's own HTTP client, or to the next step.
Upgrade(req) ==
    IF req.method # "CONNECT" /\ req.host \in UpgradeHosts
    THEN [req |-> [req EXCEPT !.scheme = "https", !.port = "443"], to |-> "client"]
    ELSE [req |-> req, to |-> "next"]

NoUpgrade ==
    [n |-> 0, nextCalls |-> 0, roundTrips |-> 0,
     in |-> [method |-> "GET", scheme |-> "http", host |-> "getiantem.org", port |-> ""],
     out |-> [method |-> "GET", scheme |-> "http", host |-> "getiantem.org", port |-> ""],
     to |-> "none"]

-----------------------------------------------------------------------------
(* The origin dialer of createFilterChain                                    *)

\* Calls of the dialer followed.
MaxDials == 3

DialAddrs == {"origin:80", "origin:443", "origin:8080"}

Operations == {"dial_origin", "resolve_origin"}

\* The dialer between calls: calls made, and for the last call its address,
\* position, resolutions and connects attempted, the operations begun,
\* failed and ended, and what it returned.
NoDial ==
    [n |-> 0, pc |-> "idle", addr |-> "", resolves |-> 0, connects |-> 0,
     begun |-> {}, failed |-> {}, ended |-> {}, result |-> "none",
     failures |-> [dial_origin |-> 0, resolve_origin |-> 0]]

\* op := ops.Begin("dial_origin"); resolveOp := ops.Begin("resolve_origin")
DialBegin(d, addr) ==
    [d EXCEPT !.n = @ + 1, !.pc = "resolving", !.addr = addr, !.resolves = 0,
              !.connects = 0, !.begun = {"dial_origin", "resolve_origin"},
              !.failed = {}, !.ended = {}, !.result = "none"]

\* Mutant of DialResolved: a failed resolution is followed by the connect.
DialResolvedThenAlwaysConnect(d, resolveErr) ==
    IF resolveErr
    THEN [d EXCEPT !.resolves = @ + 1, !.pc = "connecting",
                   !.failed = {"resolve_origin", "dial_origin"},
                   !.failures = [dial_origin |-> @.dial_origin + 1,
                                 resolve_origin |-> @.resolve_origin + 1]]
    ELSE [d EXCEPT !.resolves = @ + 1, !.pc = "connecting"]

\* Mutant of DialResolved: a failed resolution fails the resolve operation only.
DialResolvedFailsResolveOnly(d, resolveErr) ==
    IF resolveErr
    THEN [d EXCEPT !.resolves = @ + 1, !.pc = "idle",
                   !.failed = {"resolve_origin"},
                   !.ended = {"resolve_origin", "dial_origin"},
                   !.failures = [@ EXCEPT !.resolve_origin = @ + 1],
                   !.result = "resolveErr"]
    ELSE [d EXCEPT !.resolves = @ + 1, !.pc = "connecting"]

\* net.ResolveTCPAddr has returned.
DialResolved(d, resolveErr) ==
    IF resolveErr
    THEN [d EXCEPT !.resolves = @ + 1, !.pc = "idle",
                   !.failed = {"resolve_origin", "dial_origin"},
                   !.ended = {"resolve_origin", "dial_origin"},
                   !.failures = [dial_origin |-> @.dial_origin + 1,
                                 resolve_origin |-> @.resolve_origin + 1],
                   !.result = "resolveErr"]
    ELSE [d EXCEPT !.resolves = @ + 1, !.pc = "connecting"]

\* _dialer has returned.
DialConnected(d, dialErr) ==
    IF dialErr
    THEN [d EXCEPT !.connects = @ + 1, !.pc = "idle",
                   !.failed = @ \cup {"dial_origin"},
                   !.ended = @ \cup {"dial_origin"},
                   !.failures = [@ EXCEPT !.dial_origin = @ + 1],
                   !.result = "dialErr"]
    ELSE [d EXCEPT !.connects = @ + 1, !.pc = "idle",
                   !.ended = @ \cup {"dial_origin"}, !.result = "conn"]

-----------------------------------------------------------------------------
(* shadowsocks.ListenLocalTCP and ListenLocalTCPOptions                      *)

\* Inbound connections followed on the underlying listener.
MaxConns == 4

\* options.ShouldHandleLocally: nil, or a predicate that handles no address
\* locally.
Predicates == {"nil", "NeverLocal"}

\* isLocal := options.ShouldHandleLocally; if isLocal == nil { isLocal = AlwaysLocal }
IsLocal(predicate) == IF predicate = "nil" THEN "AlwaysLocal" ELSE predicate

\* The listener before ListenLocalTCPOptions is called.
NoLocal ==
    [listening |-> FALSE, isLocal |-> "none", returned |-> "none", acceptLoops |-> {},
     arrived |-> 0, pending |-> <<>>, toCaller |-> {}, toHandler |-> {}]

\* ListenLocalTCPOptions: the llistener l is made over options.Listener,
\* service.StreamServe is started over the accept function, which accepts from
\* l.wrapped, and l.wrapped is returned.
ListenLocalTCPOptions(ll, predicate) ==
    [ll EXCEPT !.listening = TRUE, !.isLocal = IsLocal(predicate),
               !.returned = "wrapped", !.acceptLoops = {"StreamServe"}]

\* Accept on the underlying listener: the connection waiting longest is taken.
AcceptFrom(ll, by) ==
    [ll EXCEPT !.pending = Tail(@),
               ![by] = @ \cup {Head(ll.pending)}]

-----------------------------------------------------------------------------
(* packet_counter.Track                                                      *)

\* Captured packets followed.
MaxPackets == 3

\* Captured IPv4 TCP packets: the destination, the IP total length, the
\* header lengths in 32-bit words, the flags set and the sequence number. With
\* both headers 20 bytes long, a total length of 40 leaves no payload.
Packets ==
    [dst : {"c1:1", "c2:2"}, ipLength : {40, 140}, ihl : {5}, dataOffset : {5},
     flags : {{}, {"SYN"}, {"FIN"}, {"RST"}, {"SYN", "FIN"}}, seq : 0..2]

\* length := payloadSize - uint16(tcp.DataOffset<<2), in uint16 arithmetic
PayloadLength(pkt) ==
    (((pkt.ipLength - pkt.ihl * 4) % 65536) - pkt.dataOffset * 4) % 65536

\* flows[key] of a Go map: the zero value for a key not in the map.
FlowOf(flows, key) ==
    IF key \in DOMAIN flows
    THEN flows[key]
    ELSE [lastSeq |-> 0, packets |-> 0, retransmissions |-> 0]

\* flows[key] = flow
Put(flows, key, flow) ==
    [k \in DOMAIN flows \cup {key} |-> IF k = key THEN flow ELSE flows[k]]

\* delete(flows, key)
Delete(flows, key) ==
    [k \in DOMAIN flows \ {key} |-> flows[k]]

NoFlows == [k \in {} |-> 0]

\* Mutant of TrackPacket: a FIN or RST reports the flow and keeps it.
TrackPacketKeepingFlow(flows, pkt) ==
    LET key == pkt.dst
        flow == FlowOf(flows, key)
    IN  IF PayloadLength(pkt) = 0 /\ pkt.flags \cap {"SYN", "RST", "FIN"} = {}
        THEN [flows |-> flows, report |-> <<>>]
        ELSE IF pkt.flags \cap {"FIN", "RST"} # {}
        THEN [flows |-> flows,
              report |-> IF flow.packets > 0
                         THEN <<[clientAddr |-> key, packets |-> flow.packets,
                                 retransmissions |-> flow.retransmissions]>>
                         ELSE <<>>]
        ELSE [flows |-> Put(flows, key,
                            IF pkt.seq > flow.lastSeq
                            THEN [flow EXCEPT !.packets = @ + 1, !.lastSeq = pkt.seq]
                            ELSE [flow EXCEPT !.packets = @ + 1,
                                              !.retransmissions = @ + 1]),
              report |-> <<>>]

\* One iteration of the loop of Track over a packet whose TCP layer decoded:
\* the flows afterwards and the report call made, if any.
TrackPacket(flows, pkt) ==
    LET key == pkt.dst
        flow == FlowOf(flows, key)
    IN  IF PayloadLength(pkt) = 0 /\ pkt.flags \cap {"SYN", "RST", "FIN"} = {}
        THEN [flows |-> flows, report |-> <<>>]
        ELSE IF pkt.flags \cap {"FIN", "RST"} # {}
        THEN [flows |-> Delete(flows, key),
              report |-> IF flow.packets > 0
                         THEN <<[clientAddr |-> key, packets |-> flow.packets,
                                 retransmissions |-> flow.retransmissions]>>
                         ELSE <<>>]
        ELSE [flows |-> Put(flows, key,
                            IF pkt.seq > flow.lastSeq
                            THEN [flow EXCEPT !.packets = @ + 1, !.lastSeq = pkt.seq]
                            ELSE [flow EXCEPT !.packets = @ + 1,
                                              !.retransmissions = @ + 1]),
              report |-> <<>>]

\* Track before its first packet.
NoTrack ==
    [n |-> 0, flows |-> NoFlows, before |-> NoFlows, report |-> <<>>,
     pkt |-> [dst |-> "c1:1", ipLength |-> 40, ihl |-> 5, dataOffset |-> 5,
              flags |-> {}, seq |-> 0]]

-----------------------------------------------------------------------------
(* opsfilter.Apply                                                           *)

\* Requests followed through the filter.
MaxTracked == 2

\* req.Host: a name, then when colon holds a colon and a port, which may be
\* empty.
Hosts ==
    {h \in [name : {"www.google.com", "10.0.0.1"}, colon : BOOLEAN,
            port : {"", "0", "80", "443", "5002"}] : h.colon \/ h.port = ""}

TrackedRequests ==
    [method : {"GET", "POST", "CONNECT"}, host : Hosts, deviceID : {"", "dev1"}]

\* net.SplitHostPort: without a colon the address has no port, which is an
\* error, and host and port are returned empty.
SplitHostPort(h) ==
    IF h.colon
    THEN [host |-> h.name, port |-> h.port, err |-> FALSE]
    ELSE [host |-> "", port |-> "", err |-> TRUE]

\* Mutant of OpsApply: the port of a CONNECT request is defaulted too.
OpsApplyDefaultingConnect(req) ==
    LET s == SplitHostPort(req.host)
    IN  [device_id |-> req.deviceID, origin |-> req.host, origin_host |-> s.host,
         origin_port |-> IF s.port = "0" \/ s.port = "" THEN "80" ELSE s.port,
         nextCalls |-> 1]

\* opsfilter.Apply: the values set on the proxy operation and sent to
\* measured, and the calls of next.
OpsApply(req) ==
    LET s == SplitHostPort(req.host)
    IN  [device_id |-> req.deviceID, origin |-> req.host, origin_host |-> s.host,
         origin_port |-> IF (s.port = "0" \/ s.port = "") /\ req.method # "CONNECT"
                         THEN "80"
                         ELSE s.port,
         nextCalls |-> 1]

NoTracked ==
    [n |-> 0,
     req |-> [method |-> "GET", deviceID |-> "",
              host |-> [name |-> "www.google.com", colon |-> FALSE, port |-> ""]],
     op |-> [device_id |-> "", origin_host |-> "", origin_port |-> "", nextCalls |-> 0,
             origin |-> [name |-> "www.google.com", colon |-> FALSE, port |-> ""]]]

-----------------------------------------------------------------------------
(* profilter: proConfig keeps the pro filter's tokens in step with the      *)
(* USER-SET, USER-REMOVE, TURN-PRO and TURN-FREE messages of the server.    *)

\* The messages the loop of Run handles.
MaxMessages == 3

ProUsers == {"u1", "u2"}
ProTokens == {"t1", "t2"}

\* redis.UserTokens: a map from user to token.
UserTokens == UNION {[us -> ProTokens] : us \in SUBSET ProUsers}

NoUsers == [k \in {} |-> "t1"]

\* A message is the list of its comma-separated fields, the type first.
Messages ==
    {<<"USER-SET">>, <<"USER-REMOVE">>, <<"TURN-PRO">>, <<"TURN-FREE">>, <<"PING">>}
    \cup {<<ty, u>> : ty \in {"USER-SET", "USER-REMOVE"}, u \in ProUsers}
    \cup {<<ty, u, t>> : ty \in {"USER-SET", "USER-REMOVE"}, u \in ProUsers,
                         t \in ProTokens}
    \cup {<<"USER-SET", u, t, "extra">> : u \in ProUsers, t \in ProTokens}

\* Mutant of processUserSetMessage: the token is kept only for a user that has
\* none yet.
processUserSetMessageKeepingFirst(userTokens, msg) ==
    IF Len(msg) # 3
    THEN [err |-> "Malformed SET message", userTokens |-> userTokens]
    ELSE IF msg[2] \in DOMAIN userTokens
         THEN [err |-> NoErr, userTokens |-> userTokens]
         ELSE [err |-> NoErr, userTokens |-> Put(userTokens, msg[2], msg[3])]

\* proConfig.processUserSetMessage; msg[1] is the message type.
processUserSetMessage(userTokens, msg) ==
    IF Len(msg) # 3
    THEN [err |-> "Malformed SET message", userTokens |-> userTokens]
    ELSE [err |-> NoErr, userTokens |-> Put(userTokens, msg[2], msg[3])]

\* proConfig.processUserRemoveMessage
processUserRemoveMessage(userTokens, msg) ==
    IF Len(msg) # 2
    THEN [err |-> "Malformed REMOVE message", userTokens |-> userTokens]
    ELSE IF msg[2] \notin DOMAIN userTokens
         THEN [err |-> "User in REMOVE message was not assigned to server",
               userTokens |-> userTokens]
         ELSE [err |-> NoErr, userTokens |-> Delete(userTokens, msg[2])]

\* proConfig.getAllTokens: one entry per user, in the order the map is ranged
\* over.
RECURSIVE getAllTokens(_)
getAllTokens(userTokens) ==
    IF DOMAIN userTokens = {}
    THEN <<>>
    ELSE LET u == CHOOSE k \in DOMAIN userTokens : TRUE
         IN  <<userTokens[u]>> \o getAllTokens(Delete(userTokens, u))

\* lanternProFilter: whether it is enabled, and the set of its tokens.
NewProFilter == [enabled |-> FALSE, tokens |-> {}]

Enable(f) == [f EXCEPT !.enabled = TRUE]
Disable(f) == [f EXCEPT !.enabled = FALSE]
\* The tokens given replace the filter's set.
SetTokens(f, tks) == [f EXCEPT !.tokens = {tks[i] : i \in 1..Len(tks)}]
ClearTokens(f) == [f EXCEPT !.tokens = {}]

\* redisConfig.GetUsersAndTokens: the users assigned to the server, or an
\* error and no users.
Fetches ==
    {[userTokens |-> ut, err |-> NoErr] : ut \in UserTokens}
    \cup {[userTokens |-> NoUsers, err |-> "redis"]}

\* The closure initialize of Run. c: the userTokens and the proFilter of the
\* proConfig.
initialize(c, fetch) ==
    LET c1 == [c EXCEPT !.userTokens = fetch.userTokens]
    IN  IF fetch.err # NoErr
        THEN c1
        ELSE IF DOMAIN c1.userTokens # {}
             THEN [c1 EXCEPT !.proFilter =
                       SetTokens(Enable(@), getAllTokens(c1.userTokens))]
             ELSE c1

\* Mutant of HandleMessage: USER-SET adds the token of the message to the
\* filter's set instead of replacing the set.
HandleMessageAddingToken(c, msg, fetch) ==
    CASE msg[1] = "USER-SET" ->
            LET c1 == IF DOMAIN c.userTokens = {} THEN initialize(c, fetch) ELSE c
                r == processUserSetMessage(c1.userTokens, msg)
            IN  [userTokens |-> r.userTokens,
                 proFilter |-> IF r.err # NoErr THEN c1.proFilter
                               ELSE [c1.proFilter EXCEPT !.tokens = @ \cup {msg[3]}],
                 before |-> c1.userTokens, err |-> r.err]
      [] msg[1] = "USER-REMOVE" ->
            LET r == processUserRemoveMessage(c.userTokens, msg)
            IN  [userTokens |-> r.userTokens,
                 proFilter |-> IF r.err # NoErr THEN c.proFilter
                               ELSE SetTokens(c.proFilter, getAllTokens(r.userTokens)),
                 before |-> c.userTokens, err |-> r.err]
      [] msg[1] = "TURN-PRO" ->
            initialize(c, fetch) @@ [before |-> c.userTokens, err |-> NoErr]
      [] msg[1] = "TURN-FREE" ->
            [userTokens |-> c.userTokens,
             proFilter |-> ClearTokens(Disable(c.proFilter)),
             before |-> c.userTokens, err |-> NoErr]
      [] OTHER ->
            [userTokens |-> c.userTokens, proFilter |-> c.proFilter,
             before |-> c.userTokens, err |-> "Unknown message type"]

\* One iteration of the loop of Run on a message read. before: the userTokens
\* the process function of the message was called on; err: what it returned.
HandleMessage(c, msg, fetch) ==
    CASE msg[1] = "USER-SET" ->
            LET c1 == IF DOMAIN c.userTokens = {} THEN initialize(c, fetch) ELSE c
                r == processUserSetMessage(c1.userTokens, msg)
            IN  [userTokens |-> r.userTokens,
                 proFilter |-> IF r.err # NoErr THEN c1.proFilter
                               ELSE SetTokens(c1.proFilter, getAllTokens(r.userTokens)),
                 before |-> c1.userTokens, err |-> r.err]
      [] msg[1] = "USER-REMOVE" ->
            LET r == processUserRemoveMessage(c.userTokens, msg)
            IN  [userTokens |-> r.userTokens,
                 proFilter |-> IF r.err # NoErr THEN c.proFilter
                               ELSE SetTokens(c.proFilter, getAllTokens(r.userTokens)),
                 before |-> c.userTokens, err |-> r.err]
      [] msg[1] = "TURN-PRO" ->
            initialize(c, fetch) @@ [before |-> c.userTokens, err |-> NoErr]
      [] msg[1] = "TURN-FREE" ->
            [userTokens |-> c.userTokens,
             proFilter |-> ClearTokens(Disable(c.proFilter)),
             before |-> c.userTokens, err |-> NoErr]
      [] OTHER ->
            [userTokens |-> c.userTokens, proFilter |-> c.proFilter,
             before |-> c.userTokens, err |-> "Unknown message type"]

\* NewRedisProConfig over a new pro filter, before Run. msg: the message
\* handled last; start: the proConfig when that message was read.
NoPro ==
    [pc |-> "new", userTokens |-> NoUsers, proFilter |-> NewProFilter, n |-> 0,
     msg |-> <<>>, err |-> NoErr, before |-> NoUsers,
     start |-> [userTokens |-> NoUsers, proFilter |-> NewProFilter]]

-----------------------------------------------------------------------------
(* Configurations                                                           *)

AddrFields == {Transports[i].field : i \in 1..Len(Transports)}

\* The configurations of the filter-chain specification: every combination of
\* the fields the chain and the dialer depend on, over one HTTP listener.
ChainConfigs ==
    {[Benchmark |-> b, TestingLocal |-> tl, VersionCheck |-> vc, HTTPS |-> h,
      Token |-> tk, ENHTTPAddr |-> en, QUICIETFAddr |-> q, WSSAddr |-> w,
      KCPConf |-> "", ShadowsocksAddr |-> "", ShadowsocksMultiplexAddr |-> "",
      Obfs4Addr |-> "", Obfs4MultiplexAddr |-> "", LampshadeAddr |-> "",
      HTTPAddr |-> ":1", HTTPMultiplexAddr |-> "", TLSMasqAddr |-> "",
      IdleTimeout |-> 1, DiffServTOS |-> 0, MultiplexProtocol |-> "",
      EnableMultipath |-> FALSE] :
        b \in BOOLEAN, tl \in BOOLEAN, vc \in BOOLEAN, h \in BOOLEAN, tk \in Tokens,
        en \in Addrs, q \in Addrs, w \in Addrs}

\* The configurations of the registry specification: every assignment of listen
\* addresses with at most MaxConfigured transports enabled.
AddrAssignments ==
    {a \in [AddrFields -> Addrs] :
        Cardinality({f \in AddrFields : a[f] # ""}) <= MaxConfigured}

RegistryConfigs ==
    {a @@ [Benchmark |-> b, TestingLocal |-> FALSE, VersionCheck |-> FALSE,
           HTTPS |-> h, Token |-> tk, ENHTTPAddr |-> "", IdleTimeout |-> 1,
           DiffServTOS |-> 0, MultiplexProtocol |-> m, EnableMultipath |-> FALSE] :
        a \in AddrAssignments, b \in BOOLEAN, h \in BOOLEAN, tk \in Tokens,
        m \in MuxProtocols}

\* The configurations of the serving specification: every assignment of listen
\* addresses, served in multipath mode or by independent tasks.
ServeConfigs ==
    {a @@ [Benchmark |-> FALSE, TestingLocal |-> FALSE, VersionCheck |-> FALSE,
           HTTPS |-> FALSE, Token |-> "tok", ENHTTPAddr |-> "", IdleTimeout |-> 1,
           DiffServTOS |-> 0, MultiplexProtocol |-> "", EnableMultipath |-> mp] :
        a \in AddrAssignments, mp \in BOOLEAN}

\* The configurations of the wrapper-stack specification: every assignment of
\* listen addresses with every combination of the fields the wrappers depend on.
StackConfigs ==
    {a @@ [Benchmark |-> FALSE, TestingLocal |-> FALSE, VersionCheck |-> FALSE,
           HTTPS |-> h, Token |-> "tok", ENHTTPAddr |-> "", IdleTimeout |-> it,
           DiffServTOS |-> tos, MultiplexProtocol |-> m, EnableMultipath |-> FALSE] :
        a \in AddrAssignments, h \in BOOLEAN, it \in 0..1, tos \in 0..1,
        m \in {"", "psmux"}}

NoSmuxTuning ==
    [SmuxVersion |-> 0, SmuxMaxFrameSize |-> 0, SmuxMaxReceiveBuffer |-> 0,
     SmuxMaxStreamBuffer |-> 0]

NoPsmuxTuning ==
    [PsmuxVersion |-> 0, PsmuxMaxFrameSize |-> 0, PsmuxMaxReceiveBuffer |-> 0,
     PsmuxMaxStreamBuffer |-> 0]

NoPsmuxPadding ==
    [PsmuxDisablePadding |-> FALSE, PsmuxMaxPaddingRatio |-> 0,
     PsmuxMaxPaddedSize |-> 0, PsmuxDisableAggressivePadding |-> FALSE,
     PsmuxAggressivePadding |-> 0, PsmuxAggressivePaddingRatio |-> 0]

\* The configurations of the multiplex-protocol specification: every override
\* of the smux fields, of the psmux fields smux has too, and of the psmux
\* padding fields with both switches, under each protocol name.
MuxConfigs ==
    {[MultiplexProtocol |-> m, SmuxVersion |-> v, SmuxMaxFrameSize |-> fs,
      SmuxMaxReceiveBuffer |-> rb, SmuxMaxStreamBuffer |-> sb]
        @@ NoPsmuxTuning @@ NoPsmuxPadding :
        m \in {"", "smux"}, v \in Overrides, fs \in Overrides, rb \in Overrides,
        sb \in Overrides}
    \cup
    {[MultiplexProtocol |-> "psmux", PsmuxVersion |-> v, PsmuxMaxFrameSize |-> fs,
      PsmuxMaxReceiveBuffer |-> rb, PsmuxMaxStreamBuffer |-> sb]
        @@ NoSmuxTuning @@ NoPsmuxPadding :
        v \in Overrides, fs \in Overrides, rb \in Overrides, sb \in Overrides}
    \cup
    {[MultiplexProtocol |-> m, PsmuxDisablePadding |-> dp, PsmuxMaxPaddingRatio |-> pr,
      PsmuxMaxPaddedSize |-> ps, PsmuxDisableAggressivePadding |-> dap,
      PsmuxAggressivePadding |-> ap, PsmuxAggressivePaddingRatio |-> apr]
        @@ NoSmuxTuning @@ NoPsmuxTuning :
        m \in {"psmux", "bogus"}, dp \in BOOLEAN, pr \in Overrides, ps \in Overrides,
        dap \in BOOLEAN, ap \in Overrides, apr \in Overrides}

-----------------------------------------------------------------------------
(* Proxy.ListenAndServe                                                     *)

NoConfig == [protocol |-> "none"]

InitWith(configs) ==
    /\ p \in configs
    /\ configured = p
    /\ pc = "start"
    /\ built = <<>>
    /\ dialerForPforward = "none"
    /\ vcErr = FALSE
    /\ filterChain = <<>>
    /\ regIdx = 0
    /\ allListeners = <<>>
    /\ listenerProtocols = <<>>
    /\ builderCalls = {}
    /\ err = NoErr
    /\ reqNum = 0
    /\ last = NoRequest
    /\ builderErr = NoErr
    /\ tasks = <<>>
    /\ errCh = <<>>
    /\ muxConfig = NoConfig
    /\ ping = NewPing
    /\ upgrade = NoUpgrade
    /\ dialer = NoDial
    /\ local = NoLocal
    /\ counter = NoTrack
    /\ tracked = NoTracked
    /\ pro = NoPro

Init == InitWith(ChainConfigs)
InitRegistry == InitWith(RegistryConfigs)
InitServe == InitWith(ServeConfigs)
InitStacks == InitWith(StackConfigs)

\* setupPacketForward, setupOpsContext, setBenchmarkMode, bbr.New.
Setup ==
    /\ pc = "start"
    /\ p' = setBenchmarkMode(p)
    /\ pc' = "setup"
    /\ UNCHANGED <<configured, built, dialerForPforward, vcErr, filterChain, regIdx,
                   allListeners, listenerProtocols, builderCalls, err, reqNum, last,
                   builderErr, tasks, errCh, muxConfig,
                   componentVars>>

\* if p.ENHTTPAddr != "" { return p.ListenAndServeENHTTP() }
ListenAndServeENHTTP ==
    /\ pc = "setup"
    /\ p.ENHTTPAddr # ""
    /\ \E listenFails \in BOOLEAN :
          IF listenFails
          THEN /\ pc' = "returned"
               /\ err' = "Unable to listen for encapsulated HTTP"
               /\ UNCHANGED filterChain
          ELSE /\ pc' = "enhttp"
               /\ filterChain' = ENHTTPChain
               /\ UNCHANGED err
    /\ UNCHANGED <<p, configured, built, dialerForPforward, vcErr, regIdx,
                   allListeners, listenerProtocols, builderCalls, reqNum, last,
                   builderErr, tasks, errCh, muxConfig,
                   componentVars>>

\* filterChain, dial, err := p.createFilterChain()
CreateFilterChain ==
    /\ pc = "setup"
    /\ p.ENHTTPAddr = ""
    /\ \E vcFails \in BOOLEAN, malformedPorts \in BOOLEAN :
          LET r == createFilterChain(p, vcFails, malformedPorts)
          IN  IF r.fatal
              THEN /\ pc' = "exited"
                   /\ vcErr' = (p.VersionCheck /\ vcFails)
                   /\ UNCHANGED <<built, dialerForPforward, err>>
              ELSE /\ built' = r.chain
                   /\ dialerForPforward' = r.dialerForPforward
                   /\ vcErr' = (p.VersionCheck /\ vcFails)
                   /\ IF r.err # NoErr
                      THEN pc' = "returned" /\ err' = r.err
                      ELSE pc' = "chain" /\ UNCHANGED err
    /\ UNCHANGED <<p, configured, filterChain, regIdx, allListeners,
                   listenerProtocols, builderCalls, reqNum, last,
                   builderErr, tasks, errCh, muxConfig,
                   componentVars>>

\* The QUIC, WSS and ops filters are added and the server is created.
NewServer ==
    /\ pc = "chain"
    /\ filterChain' = ServedChain(p, built)
    /\ pc' = "register"
    /\ regIdx' = 1
    /\ UNCHANGED <<p, configured, built, dialerForPforward, vcErr, allListeners,
                   listenerProtocols, builderCalls, err, reqNum, last,
                   builderErr, tasks, errCh, muxConfig,
                   componentVars>>

\* The next addListenerIfNecessary call.
AddListener ==
    /\ pc = "register"
    /\ regIdx <= Len(Transports)
    /\ \E fail \in FailPoints :
          LET t == Transports[regIdx]
              reg == [listeners |-> allListeners, protocols |-> listenerProtocols,
                      calls |-> builderCalls, err |-> NoErr, fatal |-> FALSE]
              r == addListenerIfNecessary(reg, t.proto, p[t.field], p, fail)
          IN  /\ allListeners' = r.listeners
              /\ listenerProtocols' = r.protocols
              /\ builderCalls' = r.calls
              /\ err' = r.err
              /\ pc' = IF r.fatal THEN "exited"
                       ELSE IF r.err # NoErr THEN "returned" ELSE "register"
              /\ regIdx' = IF r.err # NoErr THEN regIdx ELSE regIdx + 1
              /\ builderErr' = IF p[t.field] # "" /\ ~Builder(t.proto, p, fail).fatal
                               THEN Builder(t.proto, p, fail).err
                               ELSE builderErr
    /\ UNCHANGED <<p, configured, built, dialerForPforward, vcErr, filterChain,
                   reqNum, last,
                   tasks, errCh, muxConfig,
                   componentVars>>

\* One record per srv.Serve call: the acceptors the call serves, whether it is
\* still serving, and its place in the order the calls returned (0: not yet).
\* over: "multipath" for the listener multipath.NewListener makes of the
\* acceptors, "listener" for an acceptor served as it was registered.
Task(ls, over) == [listeners |-> ls, over |-> over, state |-> "serving", order |-> 0]

\* Mutant of StartTasks: one goroutine per acceptor in either mode.
StartTasksIndependent(pp, n) ==
    [i \in 1..n |-> Task({i}, "listener")]

\* The serve loops ListenAndServe starts over n acceptors: one over the merged
\* multipath listener, or one goroutine per acceptor.
StartTasks(pp, n) ==
    IF pp.EnableMultipath
    THEN <<Task(1..n, "multipath")>>
    ELSE [i \in 1..n |-> Task({i}, "listener")]

\* Every transport is registered: the acceptors are served.
Serve ==
    /\ pc = "register"
    /\ regIdx > Len(Transports)
    /\ pc' = "serving"
    /\ tasks' = StartTasks(p, Len(allListeners))
    /\ UNCHANGED <<p, configured, built, dialerForPforward, vcErr, filterChain, regIdx,
                   allListeners, listenerProtocols, builderCalls, err, reqNum, last,
                   builderErr, errCh, muxConfig,
                   componentVars>>

\* The error the srv.Serve call of task i returns, named after what it served.
ServeErr(i) ==
    IF p.EnableMultipath THEN "multipath" ELSE listenerProtocols[i]

Done == {i \in 1..Len(tasks) : tasks[i].state = "done"}

\* srv.Serve returns in task i. In independent mode the goroutine sends the
\* result on errCh, whose buffer holds one value per acceptor.
ServeReturns ==
    /\ \E i \in 1..Len(tasks) :
          /\ tasks[i].state = "serving"
          /\ tasks' = [tasks EXCEPT ![i].state = "done",
                                    ![i].order = Cardinality(Done) + 1]
          /\ errCh' = IF p.EnableMultipath THEN errCh ELSE Append(errCh, ServeErr(i))
    /\ UNCHANGED <<p, configured, pc, built, dialerForPforward, vcErr, filterChain,
                   regIdx, allListeners, listenerProtocols, builderCalls, err, reqNum,
                   last, builderErr, muxConfig,
                   componentVars>>

\* Mutant of Receive: the value sent last is received.
ReceiveLast(ch) ==
    ch[Len(ch)]

\* <-errCh
Receive(ch) ==
    Head(ch)

\* ListenAndServe returns: return srv.Serve(mpl, nil), or return <-errCh.
Return ==
    /\ pc = "serving"
    /\ IF p.EnableMultipath
       THEN /\ Done # {}
            /\ err' = ServeErr(1)
            /\ UNCHANGED errCh
       ELSE /\ Len(errCh) > 0
            /\ err' = Receive(errCh)
            /\ errCh' = Tail(errCh)
    /\ pc' = "returned"
    /\ UNCHANGED <<p, configured, built, dialerForPforward, vcErr, filterChain, regIdx,
                   allListeners, listenerProtocols, builderCalls, reqNum, last,
                   builderErr, tasks, muxConfig,
                   componentVars>>

\* The server reads one request from the connection, runs it through the chain
\* and, when no filter answered it, dials the origin with the DialFunc. The
\* encapsulated-HTTP handler does not use the DialFunc.
HandleRequest ==
    /\ \/ pc = "serving" /\ Len(allListeners) > 0
       \/ pc = "enhttp"
    /\ reqNum < MaxRequests
    /\ \E stop \in ShortCircuiting \cup {"none"}, isCONNECT \in BOOLEAN :
          LET first == (reqNum = 0)
              t == Traverse(filterChain, 1, first, stop, <<>>, <<>>)
          IN  last' = [n |-> reqNum + 1, first |-> first, isCONNECT |-> isCONNECT,
                       applied |-> t.applied, bypassed |-> t.bypassed,
                       stoppedBy |-> t.stoppedBy,
                       dialed |-> IF t.stoppedBy = "none" /\ pc = "serving"
                                  THEN DialFunc(isCONNECT, dialerForPforward)
                                  ELSE "none"]
    /\ reqNum' = reqNum + 1
    /\ UNCHANGED <<p, configured, pc, built, dialerForPforward, vcErr, filterChain,
                   regIdx, allListeners, listenerProtocols, builderCalls, err,
                   builderErr, tasks, errCh, muxConfig,
                   componentVars>>

\* The connection is closed and the next one accepted.
NewConn ==
    /\ pc \in {"serving", "enhttp"}
    /\ reqNum > 0
    /\ reqNum' = 0
    /\ last' = NoRequest
    /\ UNCHANGED <<p, configured, pc, built, dialerForPforward, vcErr, filterChain,
                   regIdx, allListeners, listenerProtocols, builderCalls, err,
                   builderErr, tasks, errCh, muxConfig,
                   componentVars>>

Next ==
    \/ Setup
    \/ ListenAndServeENHTTP
    \/ CreateFilterChain
    \/ NewServer
    \/ AddListener
    \/ Serve
    \/ HandleRequest
    \/ NewConn

Spec == Init /\ [][Next]_vars

NextRegistry ==
    \/ Setup
    \/ CreateFilterChain
    \/ NewServer
    \/ AddListener
    \/ Serve

SpecRegistry == InitRegistry /\ [][NextRegistry]_vars

InitMux == InitWith(MuxConfigs)

\* The closure of wrapMultiplexing builds the protocol of its listener.
BuildMuxProtocol ==
    /\ muxConfig = NoConfig
    /\ muxConfig' = buildProtocol(p)
    /\ UNCHANGED <<p, configured, pc, built, dialerForPforward, vcErr, filterChain,
                   regIdx, allListeners, listenerProtocols, builderCalls, err, reqNum,
                   last, builderErr, tasks, errCh,
                   componentVars>>

NextMux ==
    \/ BuildMuxProtocol

SpecMux == InitMux /\ [][NextMux]_vars

\* The configuration the filters and libraries modelled on their own run under.
ComponentConfigs ==
    {c \in ChainConfigs :
        /\ ~c.Benchmark /\ ~c.TestingLocal /\ ~c.VersionCheck /\ ~c.HTTPS
        /\ c.Token = "tok" /\ c.ENHTTPAddr = "" /\ c.QUICIETFAddr = ""
        /\ c.WSSAddr = ""}

InitComponents == InitWith(ComponentConfigs)

\* The ping middleware handles a request.
PingRequest ==
    /\ ping.n < MaxPings
    /\ \E h \in PingHeaders : ping' = ServeHTTP(ping, h)
    /\ UNCHANGED <<serverVars, upgrade, dialer, local, counter, tracked, pro>>

NextPing ==
    \/ PingRequest

SpecPing == InitComponents /\ [][NextPing]_vars

\* The HTTPS-upgrade filter is applied to a request.
UpgradeRequest ==
    /\ upgrade.n < MaxUpgrades
    /\ \E req \in UpgradeRequests :
          LET r == Upgrade(req)
          IN  upgrade' = [n |-> upgrade.n + 1,
                          nextCalls |-> upgrade.nextCalls + (IF r.to = "next" THEN 1 ELSE 0),
                          roundTrips |-> upgrade.roundTrips + (IF r.to = "client" THEN 1 ELSE 0),
                          in |-> req, out |-> r.req, to |-> r.to]
    /\ UNCHANGED <<serverVars, ping, dialer, local, counter, tracked, pro>>

NextUpgrade ==
    \/ UpgradeRequest

SpecUpgrade == InitComponents /\ [][NextUpgrade]_vars

\* The origin dialer is called.
DialerCall ==
    /\ dialer.pc = "idle"
    /\ dialer.n < MaxDials
    /\ \E addr \in DialAddrs : dialer' = DialBegin(dialer, addr)
    /\ UNCHANGED <<serverVars, ping, upgrade, local, counter, tracked, pro>>

\* The resolution of the address ends.
DialerResolve ==
    /\ dialer.pc = "resolving"
    /\ \E resolveErr \in BOOLEAN : dialer' = DialResolved(dialer, resolveErr)
    /\ UNCHANGED <<serverVars, ping, upgrade, local, counter, tracked, pro>>

\* The connect to the resolved address ends.
DialerConnect ==
    /\ dialer.pc = "connecting"
    /\ \E dialErr \in BOOLEAN : dialer' = DialConnected(dialer, dialErr)
    /\ UNCHANGED <<serverVars, ping, upgrade, local, counter, tracked, pro>>

NextDialer ==
    \/ DialerCall
    \/ DialerResolve
    \/ DialerConnect

SpecDialer == InitComponents /\ [][NextDialer]_vars

\* ListenLocalTCP or ListenLocalTCPOptions is called.
ListenLocal ==
    /\ ~local.listening
    /\ \E predicate \in Predicates : local' = ListenLocalTCPOptions(local, predicate)
    /\ UNCHANGED <<serverVars, ping, upgrade, dialer, counter, tracked, pro>>

\* A shadowsocks client connects to the underlying listener.
Inbound ==
    /\ local.listening
    /\ local.arrived < MaxConns
    /\ local' = [local EXCEPT !.arrived = @ + 1, !.pending = Append(@, local.arrived + 1)]
    /\ UNCHANGED <<serverVars, ping, upgrade, dialer, counter, tracked, pro>>

\* The caller's Accept on the returned listener returns a connection.
CallerAccept ==
    /\ local.returned = "wrapped"
    /\ local.pending # <<>>
    /\ local' = AcceptFrom(local, "toCaller")
    /\ UNCHANGED <<serverVars, ping, upgrade, dialer, counter, tracked, pro>>

\* The accept function of service.StreamServe returns a connection, which is
\* passed to tcpHandler.Handle and relayed to the target the handler dials.
StreamServeAccept ==
    /\ "StreamServe" \in local.acceptLoops
    /\ local.pending # <<>>
    /\ local' = AcceptFrom(local, "toHandler")
    /\ UNCHANGED <<serverVars, ping, upgrade, dialer, counter, tracked, pro>>

NextLocal ==
    \/ ListenLocal
    \/ Inbound
    \/ CallerAccept
    \/ StreamServeAccept

SpecLocal == InitComponents /\ [][NextLocal]_vars

\* Track reads the next captured packet.
TrackNext ==
    /\ counter.n < MaxPackets
    /\ \E pkt \in Packets :
          LET r == TrackPacket(counter.flows, pkt)
          IN  counter' = [n |-> counter.n + 1, flows |-> r.flows,
                          before |-> counter.flows, report |-> r.report, pkt |-> pkt]
    /\ UNCHANGED <<serverVars, ping, upgrade, dialer, local, tracked, pro>>

NextCounter ==
    \/ TrackNext

SpecCounter == InitComponents /\ [][NextCounter]_vars

\* opsfilter.Apply is applied to a request.
OpsRequest ==
    /\ tracked.n < MaxTracked
    /\ \E req \in TrackedRequests :
          tracked' = [n |-> tracked.n + 1, req |-> req, op |-> OpsApply(req)]
    /\ UNCHANGED <<serverVars, ping, upgrade, dialer, local, counter, pro>>

NextOps ==
    \/ OpsRequest

SpecOps == InitComponents /\ [][NextOps]_vars

\* Run(initAsPro): initialization when starting as pro, then the message loop
\* is started, unless the initialization failed.
ProRun ==
    /\ pro.pc = "new"
    /\ \E initAsPro \in BOOLEAN, fetch \in Fetches :
          LET c == [userTokens |-> pro.userTokens, proFilter |-> pro.proFilter]
              c1 == IF initAsPro THEN initialize(c, fetch) ELSE c
          IN  pro' = [pro EXCEPT !.pc = IF initAsPro /\ fetch.err # NoErr
                                        THEN "failed" ELSE "running",
                                 !.userTokens = c1.userTokens,
                                 !.proFilter = c1.proFilter,
                                 !.err = IF initAsPro THEN fetch.err ELSE NoErr]
    /\ UNCHANGED <<serverVars, ping, upgrade, dialer, local, counter, tracked>>

\* The loop of Run handles the next message.
ProMessage ==
    /\ pro.pc = "running"
    /\ pro.n < MaxMessages
    /\ \E msg \in Messages, fetch \in Fetches :
          LET c == [userTokens |-> pro.userTokens, proFilter |-> pro.proFilter]
              r == HandleMessage(c, msg, fetch)
          IN  pro' = [pc |-> "running", userTokens |-> r.userTokens,
                      proFilter |-> r.proFilter, n |-> pro.n + 1, msg |-> msg,
                      err |-> r.err, before |-> r.before, start |-> c]
    /\ UNCHANGED <<serverVars, ping, upgrade, dialer, local, counter, tracked>>

NextPro ==
    \/ ProRun
    \/ ProMessage

SpecPro == InitComponents /\ [][NextPro]_vars

NextServe ==
    \/ Setup
    \/ CreateFilterChain
    \/ NewServer
    \/ AddListener
    \/ Serve
    \/ ServeReturns
    \/ Return

SpecServe == InitServe /\ [][NextServe]_vars

SpecStacks == InitStacks /\ [][NextRegistry]_vars

-----------------------------------------------------------------------------
(* Properties                                                               *)

Range(seq) == {seq[i] : i \in 1..Len(seq)}

\* The main server was created with its chain (not the encapsulated-HTTP one).
ChainServed == pc \in {"register", "serving", "returned", "exited"} /\ filterChain # <<>>

\* The last request was handled by the main server.
Handled == pc = "serving" /\ last.n > 0

\* C1: for every configuration the header-sanitization filter is the last
\* element of the chain handed to the server; no filter is ordered after it.
C1_CleanHeadersLastInServedChain ==
    ChainServed => filterChain[Len(filterChain)].name = "cleanheaders"

\* The position of each filter in the fixed ordering of createFilterChain; the
\* rate-limit and the token-authentication filter share the second position.
Rank(n) ==
    CASE n = "bm" -> 1
      [] n \in {"ratelimit", "tokenfilter"} -> 2
      [] n = "googlefilter" -> 3
      [] n = "blocklocal" -> 4
      [] n = "ping" -> 5
      [] n = "versioncheck" -> 6
      [] n = "discardinitial" -> 7
      [] n = "forwardedfor" -> 8
      [] n = "httpsupgrade" -> 9
      [] n = "restrictports" -> 10
      [] n = "recordop" -> 11
      [] n = "cleanheaders" -> 12
      [] OTHER -> 0

RequiredFilters ==
    {"bm", "googlefilter", "ping", "discardinitial", "forwardedfor", "httpsupgrade",
     "restrictports", "recordop", "cleanheaders"}

\* C2: the filters of the chain built by createFilterChain appear in the fixed
\* relative order; the optional filters are absent or at their position, and
\* the filters that are not optional are all there.
C2_FixedOrder ==
    built # <<>> =>
        /\ \A i \in 1..Len(built) : Rank(built[i].name) > 0
        /\ \A i \in 1..Len(built), j \in 1..Len(built) :
              i < j => Rank(built[i].name) < Rank(built[j].name)
        /\ RequiredFilters \subseteq Names(built)

C2_Witness ==
    /\ built # <<>>
    /\ Has(built, "blocklocal")
    /\ Has(built, "versioncheck")
    /\ Has(built, "tokenfilter")

\* The filters C3 counts as business logic.
BusinessLogic ==
    {"quic", "wss", "blocklocal", "ping", "versioncheck", "forwardedfor",
     "httpsupgrade", "restrictports"}

\* C3: in normal mode, on the first request of a connection, no business-logic
\* filter of the served chain processes the request before the
\* token-authentication filter has run.
C3_TokenBeforeBusinessLogic ==
    (ChainServed /\ ~configured.Benchmark) =>
        \A i \in 1..Len(filterChain) :
            filterChain[i].name \in BusinessLogic =>
                \E j \in 1..(i - 1) : filterChain[j].name = "tokenfilter"

\* C4: the chain holds exactly one of the rate-limiting filter and the
\* first-request-only token filter: the former iff Benchmark is set.
C4_ExactlyOneAuthFilter ==
    built # <<>> =>
        /\ Count(built, "ratelimit") + Count(built, "tokenfilter") = 1
        /\ Has(built, "ratelimit") <=> configured.Benchmark
        /\ Has(built, "tokenfilter") <=> ~configured.Benchmark
        /\ \A i \in 1..Len(built) :
              /\ built[i].name = "tokenfilter" => built[i].firstOnly
              /\ built[i].name = "ratelimit" => ~built[i].firstOnly

C4_Witness ==
    /\ built # <<>>
    /\ configured.Benchmark
    /\ Has(built, "ratelimit")
    /\ ~Has(built, "tokenfilter")

\* The transports whose builder wraps with TLS when p.HTTPS is set.
TLSBearing == {"kcp", "https", "https_multiplex", "wss"}

\* C5: with Benchmark set, HTTPS is true and Token is the benchmark token
\* before the chain or any listener is built, whatever was configured, and
\* every TLS-bearing transport built is TLS-wrapped; without it,
\* setBenchmarkMode leaves both fields as configured.
C5_BenchmarkForcesSecureMode ==
    /\ (built # <<>> \/ filterChain # <<>> \/ allListeners # <<>> \/ builderCalls # {})
          => pc # "start"
    /\ pc # "start" =>
          /\ configured.Benchmark => (p.HTTPS /\ p.Token = BenchToken)
          /\ ~configured.Benchmark =>
                (p.HTTPS = configured.HTTPS /\ p.Token = configured.Token)
    /\ configured.Benchmark =>
          \A i \in 1..Len(allListeners) :
              listenerProtocols[i] \in TLSBearing => "tls" \in Range(allListeners[i])

C5_Witness ==
    /\ configured.Benchmark
    /\ ~configured.HTTPS
    /\ configured.Token # BenchToken
    /\ pc = "serving"
    /\ \E i \in 1..Len(allListeners) :
          listenerProtocols[i] = "https" /\ "tls" \in Range(allListeners[i])

\* C6 as claimed: the bandwidth filter p.bm is the first filter a request
\* traverses in the served chain.
C6_BmFirstInServedChain ==
    /\ ChainServed => filterChain[1].name = "bm"
    /\ Handled => last.applied[1] = "bm"

\* C6 as amended: p.bm is the first filter of the chain createFilterChain
\* builds; in the served chain the ops filter is first, the QUIC middleware
\* follows it when QUICIETFAddr is set, p.bm comes right after them, and a
\* request traverses them in that order.
C6_BmFirstInBuiltChain ==
    /\ built # <<>> => built[1].name = "bm"
    /\ ChainServed =>
          LET k == IndexOf(filterChain, "bm")
          IN  /\ Count(filterChain, "bm") = 1
              /\ filterChain[1].name = "opsfilter"
              /\ k = IF p.QUICIETFAddr # "" THEN 3 ELSE 2
              /\ p.QUICIETFAddr # "" => filterChain[2].name = "quic"
    /\ Handled =>
          /\ "bm" \in Range(last.applied)
          /\ \A i \in 1..Len(last.applied) :
                (\A j \in 1..i : last.applied[j] # "bm") =>
                    last.applied[i] \in {"opsfilter", "quic"}

C6_Witness ==
    /\ Handled
    /\ p.QUICIETFAddr # ""
    /\ p.WSSAddr # ""
    /\ last.applied[1] = "opsfilter"
    /\ last.applied[2] = "quic"
    /\ last.applied[3] = "bm"

FirstOnlyFilters == {"tokenfilter", "googlefilter"}

\* C7 as claimed: the token and the search-detection filter are applied to the
\* first request of a connection and bypassed afterwards; every other filter
\* of the chain (the rate limiter in benchmark mode too) is applied to every
\* request.
C7_EveryOtherFilterAppliedToEveryRequest ==
    Handled =>
        \A i \in 1..Len(filterChain) :
            LET f == filterChain[i].name
            IN  IF f \in FirstOnlyFilters
                THEN f \in Range(last.applied) <=> last.first
                ELSE f \in Range(last.applied)

\* The request got as far as position i of the chain: no filter ahead of i
\* answered it.
Reached(i) ==
    \/ last.stoppedBy = "none"
    \/ i <= IndexOf(filterChain, last.stoppedBy)

\* C7 as amended: the token and the search-detection filter are applied only to
\* the first request of a connection, and bypassed on every later one; every
\* other filter (the rate limiter in benchmark mode too) is applied to every
\* request that reaches it, that is, unless a filter ahead of it answered the
\* request itself.
C7_FirstOnlyBypassedOthersAppliedWhenReached ==
    Handled =>
        \A i \in 1..Len(filterChain) :
            LET f == filterChain[i].name
            IN  IF f \in FirstOnlyFilters
                THEN /\ f \in Range(last.applied) <=> (last.first /\ Reached(i))
                     /\ (~last.first /\ Reached(i)) => f \in Range(last.bypassed)
                ELSE /\ f \in Range(last.applied) <=> Reached(i)
                     /\ f \notin Range(last.bypassed)

C7_Witness ==
    /\ Handled
    /\ ~configured.Benchmark
    /\ ~last.first
    /\ last.stoppedBy = "ping"
    /\ last.bypassed = <<"tokenfilter", "googlefilter">>
    /\ "ping" \in Range(last.applied)
    /\ "cleanheaders" \notin Range(last.applied)

\* C8: the version-check filter is in the chain iff the forward dialer is the
\* version-check dialer, and both iff VersionCheck is set and versioncheck.New
\* succeeded; a construction failure is no error of createFilterChain and
\* drops no other filter.
C8_VersionCheckFilterIffDialer ==
    built # <<>> =>
        /\ Has(built, "versioncheck") <=> (dialerForPforward = VersionCheckDialer)
        /\ ~Has(built, "versioncheck") <=> (dialerForPforward = OriginDialer)
        /\ Has(built, "versioncheck") <=> (configured.VersionCheck /\ ~vcErr)
        /\ pc = "chain" => err = NoErr
        /\ vcErr =>
              /\ pc = "returned" => regIdx \in 1..Len(Transports)
              /\ RequiredFilters \subseteq Names(built)
              /\ Has(built, "blocklocal") <=> ~configured.TestingLocal
              /\ Has(built, "ratelimit") \/ Has(built, "tokenfilter")

C8_Witness ==
    /\ pc = "serving"
    /\ configured.VersionCheck
    /\ vcErr
    /\ ~Has(built, "versioncheck")
    /\ dialerForPforward = OriginDialer

\* C9: the DialFunc uses the plain origin dialer for every tunnel call and the
\* forward dialer for every other call, whatever was dialed before.
C9_DialKeyedByIsTunnel ==
    (Handled /\ last.stoppedBy = "none") =>
        /\ last.isCONNECT => last.dialed = OriginDialer
        /\ ~last.isCONNECT => last.dialed = dialerForPforward

C9_Witness ==
    /\ Handled
    /\ last.n > 1
    /\ last.isCONNECT
    /\ last.dialed = OriginDialer
    /\ dialerForPforward = VersionCheckDialer

\* The addListenerIfNecessary calls that have returned without an error.
Registered ==
    {i \in 1..Len(Transports) : pc \in {"register", "serving", "returned", "exited"}
                                  /\ i < regIdx}

\* C10: registering a transport whose listen address is empty is a no-op: its
\* builder is not invoked, no acceptor and no protocol label are added, and no
\* error is returned, for every transport name.
C10_EmptyAddressIsNoOp ==
    /\ \A i \in 1..Len(Transports) :
          p[Transports[i].field] = "" =>
              /\ Transports[i].proto \notin builderCalls
              /\ Transports[i].proto \notin Range(listenerProtocols)
    /\ Len(allListeners) = Cardinality({i \in Registered : p[Transports[i].field] # ""})
    /\ Len(listenerProtocols) = Len(allListeners)
    /\ (pc \in {"returned", "exited"} /\ regIdx \in 1..Len(Transports)) =>
          p[Transports[regIdx].field] # ""

C10_Witness ==
    /\ pc = "serving"
    /\ p.KCPConf = ""
    /\ p.TLSMasqAddr = ""
    /\ p.HTTPAddr # ""
    /\ listenerProtocols = <<"https">>
    /\ builderCalls = {"https"}

\* C11: when the builder of a configured transport returns an error,
\* ListenAndServe returns that error at that registration and no serve loop is
\* ever started, whatever acceptors the earlier registrations built.
C11_BuilderErrorIsStartupFailure ==
    builderErr # NoErr =>
        /\ pc = "returned"
        /\ err = builderErr
        /\ regIdx \in 1..Len(Transports)
        /\ tasks = <<>>
        /\ errCh = <<>>

C11_Witness ==
    /\ builderErr = "Unable to wrap listener with OBFS4"
    /\ pc = "returned"
    /\ err = builderErr
    /\ Len(allListeners) = 1
    /\ tasks = <<>>

\* The transports whose builder is composed with wrapMultiplexing.
Multiplexed ==
    {"shadowsocks_multiplex", "obfs4_multiplex", "https_multiplex", "tlsmasq"}

InvalidMux == p.MultiplexProtocol \notin {"", "smux", "psmux"}

MultiplexedConfigured ==
    \E i \in 1..Len(Transports) :
        Transports[i].proto \in Multiplexed /\ p[Transports[i].field] # ""

\* C12 as stated: with an invalid multiplex protocol name ListenAndServe never
\* serves an acceptor, whatever listen addresses are configured.
C12_InvalidMuxNameNeverServes ==
    InvalidMux => (pc # "serving" /\ tasks = <<>>)

\* C12, amended: with an invalid multiplex protocol name and a listen address
\* set for some multiplexed transport, no acceptor is ever served and no
\* multiplexed acceptor is built; a multiplexed builder that is reached stops
\* the startup at its registration.
C12_InvalidMuxNameFatalWhenMultiplexedConfigured ==
    InvalidMux =>
        /\ MultiplexedConfigured => (pc # "serving" /\ tasks = <<>>)
        /\ Range(listenerProtocols) \cap Multiplexed = {}
        /\ \A i \in 1..Len(Transports) :
              (Transports[i].proto \in Multiplexed
                    /\ Transports[i].proto \in builderCalls) =>
                  /\ pc \in {"returned", "exited"}
                  /\ regIdx = i
                  /\ pc = "returned" => err # NoErr

C12_Witness ==
    /\ InvalidMux
    /\ pc = "returned"
    /\ err = "unknown multiplex protocol"
    /\ listenerProtocols = <<"obfs4">>
    /\ Transports[regIdx].proto = "https_multiplex"
    /\ tasks = <<>>

Top(stack) == stack[Len(stack)]

MuxLayers == {"smux", "psmux"}

\* C13: a multiplexed acceptor carries the smux wrapper when MultiplexProtocol
\* is unset or "smux" and the psmux wrapper only when it is "psmux"; for any
\* other value the builder returns an error and no acceptor is added.
C13_MuxProtocolSelection ==
    /\ \A i \in 1..Len(allListeners) :
          listenerProtocols[i] \in Multiplexed =>
              /\ p.MultiplexProtocol \in {"", "smux"} => Top(allListeners[i]) = "smux"
              /\ p.MultiplexProtocol = "psmux" => Top(allListeners[i]) = "psmux"
              /\ Top(allListeners[i]) = "psmux" => p.MultiplexProtocol = "psmux"
              /\ ~InvalidMux
    /\ \A i \in 1..Len(Transports) :
          (InvalidMux /\ Transports[i].proto \in Multiplexed
                /\ Transports[i].proto \in builderCalls) =>
              /\ Transports[i].proto \notin Range(listenerProtocols)
              /\ pc = "returned" => err # NoErr
              /\ (pc = "returned" /\ builderErr \notin
                      {"listen", "Unable to listen for HTTP", "tlslistener",
                       "Unable to listen for OBFS4", "Unable to wrap listener with OBFS4",
                       "Unable to create shadowsocks cipher",
                       "Unable to listen for shadowsocks"}) =>
                    err = "unknown multiplex protocol"

C13_Witness ==
    /\ p.MultiplexProtocol = ""
    /\ listenerProtocols = <<"obfs4_multiplex", "tlsmasq">>
    /\ Top(allListeners[1]) = "smux"
    /\ Top(allListeners[2]) = "smux"

PaddingFields ==
    {"MaxPaddingRatio", "MaxPaddedSize", "AggressivePadding", "AggressivePaddingRatio"}

\* C14: a psmux configuration built with PsmuxDisablePadding set has all four
\* padding fields zero, whatever the padding overrides and whatever
\* PsmuxDisableAggressivePadding.
C14_DisablePaddingZeroesPaddingFields ==
    (muxConfig.protocol = "psmux" /\ p.PsmuxDisablePadding) =>
        \A f \in PaddingFields : muxConfig.config[f] = 0

C14_Witness ==
    /\ muxConfig.protocol = "psmux"
    /\ p.PsmuxDisablePadding
    /\ ~p.PsmuxDisableAggressivePadding
    /\ p.PsmuxMaxPaddingRatio = 2
    /\ p.PsmuxMaxPaddedSize = 1
    /\ p.PsmuxAggressivePadding = 2
    /\ p.PsmuxAggressivePaddingRatio = 1
    /\ \A f \in PaddingFields : muxConfig.config[f] = 0

\* The value a field holds after an override that is applied when positive.
Expected(v) == IF v > 0 THEN v ELSE LibraryDefault

TuningAsConfigured ==
    /\ muxConfig.protocol = "smux" =>
          /\ muxConfig.config.Version = Expected(p.SmuxVersion)
          /\ muxConfig.config.MaxFrameSize = Expected(p.SmuxMaxFrameSize)
          /\ muxConfig.config.MaxReceiveBuffer = Expected(p.SmuxMaxReceiveBuffer)
          /\ muxConfig.config.MaxStreamBuffer = Expected(p.SmuxMaxStreamBuffer)
    /\ muxConfig.protocol = "psmux" =>
          /\ muxConfig.config.Version = Expected(p.PsmuxVersion)
          /\ muxConfig.config.MaxFrameSize = Expected(p.PsmuxMaxFrameSize)
          /\ muxConfig.config.MaxReceiveBuffer = Expected(p.PsmuxMaxReceiveBuffer)
          /\ muxConfig.config.MaxStreamBuffer = Expected(p.PsmuxMaxStreamBuffer)
    /\ (muxConfig.protocol = "psmux" /\ ~p.PsmuxDisablePadding) =>
          /\ muxConfig.config.MaxPaddingRatio = Expected(p.PsmuxMaxPaddingRatio)
          /\ muxConfig.config.MaxPaddedSize = Expected(p.PsmuxMaxPaddedSize)

AggressiveAsConfigured ==
    /\ muxConfig.config.AggressivePadding = Expected(p.PsmuxAggressivePadding)
    /\ muxConfig.config.AggressivePaddingRatio = Expected(p.PsmuxAggressivePaddingRatio)

\* C15 as stated: every smux and psmux tuning field, and with padding enabled
\* every padding field, holds its override when positive and the default
\* otherwise.
C15_EveryFieldOverrideOrDefault ==
    /\ TuningAsConfigured
    /\ (muxConfig.protocol = "psmux" /\ ~p.PsmuxDisablePadding) =>
          AggressiveAsConfigured

\* C15, amended: the same, the two aggressive-padding fields only when neither
\* padding nor aggressive padding is disabled.
C15_FieldOverrideOrDefaultUnlessDisabled ==
    /\ TuningAsConfigured
    /\ (muxConfig.protocol = "psmux" /\ ~p.PsmuxDisablePadding
            /\ ~p.PsmuxDisableAggressivePadding) =>
          AggressiveAsConfigured

C15_Witness ==
    /\ muxConfig.protocol = "psmux"
    /\ ~p.PsmuxDisablePadding
    /\ ~p.PsmuxDisableAggressivePadding
    /\ p.PsmuxMaxPaddedSize = 2
    /\ muxConfig.config.MaxPaddedSize = 2
    /\ p.PsmuxAggressivePadding = 0
    /\ muxConfig.config.AggressivePadding = LibraryDefault
    /\ p.PsmuxMaxPaddingRatio = -1
    /\ muxConfig.config.MaxPaddingRatio = LibraryDefault

\* The transports whose builder is composed with wrapTLSIfNecessary.
WrapTLSTransports == {"kcp", "https", "https_multiplex"}

\* The stack the base builder of such a transport returns.
BaseStack(proto) ==
    IF proto = "kcp" THEN listenKCP(p, "none").stack ELSE listenHTTP(p, "none").stack

WithoutMux(stack) ==
    IF Top(stack) \in MuxLayers THEN SubSeq(stack, 1, Len(stack) - 1) ELSE stack

\* C16: a builder composed with wrapTLSIfNecessary puts one TLS layer directly
\* on its base acceptor when HTTPS is true as the builder is invoked and returns
\* the base acceptor as built otherwise; an error of the base builder is
\* returned as it is, and the TLS step fails only where it runs.
C16_TLSWrappedIffHTTPSAtInvocation ==
    /\ \A i \in 1..Len(allListeners) :
          listenerProtocols[i] \in WrapTLSTransports =>
              WithoutMux(allListeners[i]) =
                  IF p.HTTPS
                  THEN Append(BaseStack(listenerProtocols[i]), "tls")
                  ELSE BaseStack(listenerProtocols[i])
    /\ (pc = "returned" /\ regIdx \in 1..Len(Transports)) =>
          (Transports[regIdx].proto \in WrapTLSTransports =>
              /\ err = "tlslistener" => p.HTTPS
              /\ err \in {"Unable to listen for HTTP", "Unable to open KCPConf",
                           "Unable to decode KCPConf", "tlslistener",
                           "unknown multiplex protocol"})

C16_Witness ==
    /\ ~configured.HTTPS
    /\ p.HTTPS
    /\ listenerProtocols = <<"kcp", "https">>
    /\ allListeners[2] = <<"tcp", "idle", "bbr", "tls">>
    /\ Top(allListeners[1]) = "tls"

In(stack, layer) == \E i \in 1..Len(stack) : stack[i] = layer

\* The position of the lowest wrapper with this name.
Pos(stack, layer) ==
    CHOOSE i \in 1..Len(stack) :
        stack[i] = layer /\ \A j \in 1..(i - 1) : stack[j] # layer

Beneath(stack, a, b) ==
    In(stack, a) /\ In(stack, b) /\ Pos(stack, a) < Pos(stack, b)

MuxLayer(stack) == Top(stack)

\* C17 as stated: every multiplexed acceptor has the idle-timeout and the
\* bandwidth wrapper in its stack, both beneath the multiplexing wrapper.
C17_IdleAndBBRBeneathMux ==
    \A i \in 1..Len(allListeners) :
        listenerProtocols[i] \in Multiplexed =>
            /\ Beneath(allListeners[i], "idle", MuxLayer(allListeners[i]))
            /\ Beneath(allListeners[i], "bbr", MuxLayer(allListeners[i]))

\* C17, amended: the multiplexing wrapper is the top of every multiplexed
\* acceptor, above every other wrapper; beneath it obfs4_multiplex and
\* https_multiplex have the bandwidth wrapper, and the idle-timeout wrapper
\* when IdleTimeout is positive; tlsmasq has the idle-timeout wrapper when
\* IdleTimeout is positive and no bandwidth wrapper; shadowsocks_multiplex
\* has neither.
C17_WrappersBeneathMuxPerTransport ==
    \A i \in 1..Len(allListeners) :
        LET stack == allListeners[i]
            proto == listenerProtocols[i]
        IN  proto \in Multiplexed =>
                /\ MuxLayer(stack) \in MuxLayers
                /\ \A j \in 1..(Len(stack) - 1) : stack[j] \notin MuxLayers
                /\ proto \in {"obfs4_multiplex", "https_multiplex"} =>
                      /\ Beneath(stack, "bbr", MuxLayer(stack))
                      /\ In(stack, "idle") <=> p.IdleTimeout > 0
                /\ proto = "tlsmasq" =>
                      /\ ~In(stack, "bbr")
                      /\ In(stack, "idle") <=> p.IdleTimeout > 0
                /\ proto = "shadowsocks_multiplex" =>
                      /\ ~In(stack, "bbr")
                      /\ ~In(stack, "idle")

C17_Witness ==
    /\ p.IdleTimeout > 0
    /\ p.DiffServTOS = 0
    /\ listenerProtocols = <<"shadowsocks_multiplex", "tlsmasq">>
    /\ allListeners[1] = <<"shadowsocks", "smux">>
    /\ allListeners[2] = <<"tcp", "idle", "tlsmasq", "smux">>

\* The transports that have a multiplexed form, with that form.
MultiplexedForm ==
    [obfs4 |-> "obfs4_multiplex", https |-> "https_multiplex",
     shadowsocks |-> "shadowsocks_multiplex"]

ListenerOf(proto) ==
    allListeners[CHOOSE i \in 1..Len(listenerProtocols) : listenerProtocols[i] = proto]

\* C18: for obfs4, https and shadowsocks, the stack of the multiplexed form is
\* the stack of the plain form with one multiplexing wrapper added on top, so
\* the two have the same socket, TLS and idle-timeout layers.
C18_MultiplexedIsPlainPlusMux ==
    \A plain \in DOMAIN MultiplexedForm :
        LET mux == MultiplexedForm[plain]
        IN  mux \in Range(listenerProtocols) =>
                /\ Top(ListenerOf(mux)) \in MuxLayers
                /\ WithoutMux(ListenerOf(mux)) = Builder(plain, p, "none").stack
                /\ plain \in Range(listenerProtocols) =>
                      /\ WithoutMux(ListenerOf(mux)) = ListenerOf(plain)
                      /\ \A j \in 1..Len(ListenerOf(plain)) :
                            ListenerOf(plain)[j] \notin MuxLayers

C18_Witness ==
    /\ p.HTTPS
    /\ p.IdleTimeout > 0
    /\ listenerProtocols = <<"https", "https_multiplex">>
    /\ allListeners[1] = <<"tcp", "idle", "bbr", "tls">>
    /\ allListeners[2] = <<"tcp", "idle", "bbr", "tls", "psmux">>

\* C19: with DiffServTOS positive the diffserv wrapper sits directly on the raw
\* TCP listener, beneath the idle-timeout and bandwidth wrappers of the stack;
\* with DiffServTOS zero no stack has a diffserv wrapper.
C19_DiffservDirectlyOnRawTCP ==
    \A i \in 1..Len(allListeners) :
        LET stack == allListeners[i]
        IN  /\ p.DiffServTOS = 0 => ~In(stack, "diffserv")
            /\ (p.DiffServTOS > 0 /\ stack[1] = "tcp") =>
                  /\ stack[2] = "diffserv"
                  /\ In(stack, "idle") => Beneath(stack, "diffserv", "idle")
                  /\ In(stack, "bbr") => Beneath(stack, "diffserv", "bbr")

\* ListenAndServe has returned what a serve loop returned.
ReturnedFromServe == pc = "returned" /\ regIdx > Len(Transports)

\* C20: in independent mode every registered acceptor is served by exactly one
\* task; ListenAndServe returns the error of the serve loop that returned
\* first, which is ready to be received as soon as that loop returns; the
\* other tasks are left serving, and what a later task returns is never
\* returned.
C20_FirstServeErrorWins ==
    (~p.EnableMultipath /\ pc \in {"serving", "returned"} /\ regIdx > Len(Transports)) =>
        /\ Len(tasks) = Len(allListeners)
        /\ \A i \in 1..Len(allListeners) :
              /\ tasks[i].listeners = {i}
              /\ Cardinality({t \in 1..Len(tasks) : i \in tasks[t].listeners}) = 1
              /\ tasks[i].order = 0 <=> tasks[i].state = "serving"
        /\ (pc = "serving" /\ Done # {}) => Len(errCh) > 0
        /\ ReturnedFromServe =>
              \E i \in 1..Len(tasks) :
                  /\ tasks[i].order = 1
                  /\ err = ServeErr(i)
                  /\ \A j \in 1..Len(tasks) : tasks[j].order > 1 => err # ServeErr(j)

C20_Witness ==
    /\ ~p.EnableMultipath
    /\ ReturnedFromServe
    /\ listenerProtocols = <<"obfs4", "https">>
    /\ tasks[2].order = 1
    /\ tasks[1].order = 2
    /\ err = "https"

\* C21: in multipath mode the registered acceptors are merged into one
\* multipath acceptor, one serve loop runs over it and none over an acceptor
\* alone, nothing is sent on errCh, and ListenAndServe returns what that serve
\* loop returned.
C21_MultipathOneServeLoop ==
    (p.EnableMultipath /\ pc \in {"serving", "returned"} /\ regIdx > Len(Transports)) =>
        /\ Len(tasks) = 1
        /\ tasks[1].over = "multipath"
        /\ tasks[1].listeners = 1..Len(allListeners)
        /\ \A t \in 1..Len(tasks) : tasks[t].over # "listener"
        /\ errCh = <<>>
        /\ ReturnedFromServe => (tasks[1].state = "done" /\ err = ServeErr(1))

C21_Witness ==
    /\ p.EnableMultipath
    /\ ReturnedFromServe
    /\ listenerProtocols = <<"obfs4", "https">>
    /\ tasks = <<[listeners |-> {1, 2}, over |-> "multipath", state |-> "done",
                  order |-> 1]>>
    /\ err = "multipath"

PingSizes == [small |-> SmallSize, medium |-> MediumSize, large |-> LargeSize]

Handled1 == ping.n > 0

\* C22: a ping of size small, medium or large is answered with status 200 and
\* 1, 100 or 10000 copies of the 1024-byte block; the moving average of that
\* size is updated once and the other two are left as they were.
C22_PingSizesAnswered ==
    (Handled1 /\ HeaderGet(ping.header) \in DOMAIN PingSizes) =>
        LET size == HeaderGet(ping.header)
        IN  /\ ping.resp.status = 200
            /\ ping.resp.copies = PingSizes[size]
            /\ ping.resp.bodyLen = PingSizes[size] * 1024
            /\ ~ping.resp.message
            /\ ping.updates[size] = ping.before[size] + 1
            /\ \A other \in DOMAIN PingSizes \ {size} :
                  ping.updates[other] = ping.before[other]

C22_Witness ==
    /\ ping.header = [present |-> TRUE, value |-> "medium"]
    /\ ping.resp.status = 200
    /\ ping.resp.copies = 100
    /\ ping.before = [small |-> 1, medium |-> 1, large |-> 0]
    /\ ping.updates = [small |-> 1, medium |-> 2, large |-> 0]

\* C23: a non-empty ping header value other than small, medium or large is
\* answered with status 400; no copy of the block is written, no moving
\* average is updated and the next handler is not invoked.
C23_UnknownPingSizeRejected ==
    (Handled1 /\ HeaderGet(ping.header) \notin DOMAIN PingSizes \cup {""}) =>
        /\ ping.resp.status = 400
        /\ ping.resp.copies = 0
        /\ ping.resp.bodyLen = 0
        /\ ping.updates = ping.before
        /\ ping.resp.updated = "none"
        /\ ping.resp.nextCalls = 0

C23_Witness ==
    /\ ping.header = [present |-> TRUE, value |-> "Small"]
    /\ ping.resp.status = 400
    /\ ping.resp.message
    /\ ping.before = [small |-> 1, medium |-> 0, large |-> 1]
    /\ ping.updates = ping.before

\* C24: with the ping header absent or empty the next handler is invoked once
\* and the filter writes nothing and updates no moving average; with the
\* header set to anything else the next handler is never invoked.
C24_PingPassThroughOnlyWithoutHeader ==
    Handled1 =>
        /\ (~ping.header.present \/ ping.header.value = "") =>
              /\ ping.resp.nextCalls = 1
              /\ ping.resp.status = 0
              /\ ping.resp.copies = 0
              /\ ~ping.resp.message
              /\ ping.updates = ping.before
        /\ (ping.header.present /\ ping.header.value # "") => ping.resp.nextCalls = 0

C24_Witness ==
    /\ ping.header = [present |-> TRUE, value |-> ""]
    /\ ping.resp = [NoResponse EXCEPT !.nextCalls = 1]
    /\ ping.updates = [small |-> 1, medium |-> 1, large |-> 1]

\* C25: the HTTPS-upgrade filter rewrites a request to scheme https and host
\* <hostname>:443 exactly when its method is not CONNECT and its host is in the
\* upgrade policy, with or without an explicit :80; a CONNECT request to such a
\* host and every request to another host reach the next step unchanged.
C25_UpgradeIffNotConnectAndHostMatches ==
    upgrade.n > 0 =>
        LET matching == upgrade.in.method # "CONNECT" /\ upgrade.in.host \in UpgradeHosts
        IN  /\ matching <=>
                  /\ upgrade.out.scheme = "https"
                  /\ upgrade.out.port = "443"
                  /\ upgrade.out.host = upgrade.in.host
            /\ matching => upgrade.out.method = upgrade.in.method
            /\ ~matching => (upgrade.out = upgrade.in /\ upgrade.to = "next")

C25_Witness ==
    /\ upgrade.n = 2
    /\ upgrade.nextCalls = 1
    /\ upgrade.in = [method |-> "OPTIONS", scheme |-> "http",
                     host |-> "api.getiantem.org", port |-> "80"]
    /\ upgrade.out = [method |-> "OPTIONS", scheme |-> "https",
                      host |-> "api.getiantem.org", port |-> "443"]

\* C26: the origin dialer resolves before it connects, at most once each per
\* call: a failed resolution is returned with no connect attempted, a failed
\* connect is returned after the one resolution, and a connection is returned
\* after one resolution and one connect.
C26_ResolveThenConnectOnce ==
    /\ dialer.resolves <= 1
    /\ dialer.connects <= 1
    /\ dialer.connects <= dialer.resolves
    /\ dialer.pc = "resolving" => (dialer.resolves = 0 /\ dialer.connects = 0)
    /\ dialer.pc = "connecting" =>
          (dialer.resolves = 1 /\ dialer.connects = 0 /\ dialer.result = "none"
              /\ "resolve_origin" \notin dialer.failed)
    /\ (dialer.pc = "idle" /\ dialer.n > 0) =>
          /\ dialer.result \in {"resolveErr", "dialErr", "conn"}
          /\ dialer.result = "resolveErr" <=>
                (dialer.resolves = 1 /\ dialer.connects = 0)
          /\ dialer.result \in {"dialErr", "conn"} <=>
                (dialer.resolves = 1 /\ dialer.connects = 1)
          /\ dialer.result = "resolveErr" <=> "resolve_origin" \in dialer.failed

C26_Witness ==
    /\ dialer.n = 2
    /\ dialer.pc = "idle"
    /\ dialer.result = "resolveErr"
    /\ dialer.resolves = 1
    /\ dialer.connects = 0
    /\ dialer.failures.dial_origin = 2

\* C27 as stated: a failed resolution fails the resolve operation only, and a
\* failed connect the dial operation only.
C27_EachFailureFailsOneOperation ==
    (dialer.pc = "idle" /\ dialer.n > 0) =>
        /\ dialer.result = "resolveErr" => dialer.failed = {"resolve_origin"}
        /\ dialer.result = "dialErr" => dialer.failed = {"dial_origin"}

\* C27, amended: a failed resolution fails the resolve operation and the dial
\* operation around it, a failed connect the dial operation only, and a
\* connection fails neither; the resolve operation is failed exactly when the
\* resolution failed.
C27_ResolveFailureFailsBothOperations ==
    (dialer.pc = "idle" /\ dialer.n > 0) =>
        /\ dialer.result = "resolveErr" =>
              dialer.failed = {"resolve_origin", "dial_origin"}
        /\ dialer.result = "dialErr" => dialer.failed = {"dial_origin"}
        /\ dialer.result = "conn" => dialer.failed = {}
        /\ "resolve_origin" \in dialer.failed <=> dialer.result = "resolveErr"
        /\ "dial_origin" \in dialer.ended

C27_Witness ==
    /\ dialer.pc = "idle"
    /\ dialer.result = "resolveErr"
    /\ dialer.failed = {"resolve_origin", "dial_origin"}
    /\ dialer.failures = [dial_origin |-> 2, resolve_origin |-> 1]

\* C28: every inbound connection of the listener ListenLocalTCP returns is
\* delivered by Accept to the caller: none is taken by a second accept loop on
\* the underlying listener and dialed upstream by the library, and with the
\* default predicate all accepted connections are the caller's.
C28_InboundDeliveredToCallerOnly ==
    local.listening =>
        /\ local.toHandler = {}
        /\ local.isLocal = "AlwaysLocal" =>
              local.toCaller = (1..local.arrived) \ Range(local.pending)

Terminating(pkt) == pkt.flags \cap {"FIN", "RST"} # {}

PureAck(pkt) == PayloadLength(pkt) = 0 /\ pkt.flags \cap {"SYN", "RST", "FIN"} = {}

\* C29: Track calls report exactly for a FIN or RST packet of a flow that has
\* counted a packet, with the packets and retransmissions the flow has
\* accumulated, and forgets the flow; it never reports a flow that counted
\* nothing, and a pure ACK changes no flow.
C29_ReportOnTerminationOfCountedFlow ==
    counter.n > 0 =>
        LET key == counter.pkt.dst
            was == FlowOf(counter.before, key)
        IN  /\ counter.report # <<>> <=> (Terminating(counter.pkt) /\ was.packets > 0)
            /\ counter.report # <<>> =>
                  /\ counter.report = <<[clientAddr |-> key, packets |-> was.packets,
                                         retransmissions |-> was.retransmissions]>>
                  /\ counter.report[1].packets > 0
            /\ Terminating(counter.pkt) =>
                  /\ key \notin DOMAIN counter.flows
                  /\ \A k \in DOMAIN counter.before \ {key} :
                        k \in DOMAIN counter.flows /\ counter.flows[k] = counter.before[k]
            /\ PureAck(counter.pkt) => counter.flows = counter.before
            /\ \A k \in DOMAIN counter.flows :
                  /\ counter.flows[k].packets >= 1
                  /\ counter.flows[k].retransmissions <= counter.flows[k].packets

C29_Witness ==
    /\ counter.n = 3
    /\ counter.pkt.dst = "c1:1"
    /\ counter.pkt.flags = {"FIN"}
    /\ counter.before = [k \in {"c1:1"} |->
                            [lastSeq |-> 2, packets |-> 2, retransmissions |-> 1]]
    /\ counter.report = <<[clientAddr |-> "c1:1", packets |-> 2, retransmissions |-> 1]>>
    /\ DOMAIN counter.flows = {}

\* C30: for a request that is not CONNECT and whose Host has no port or port
\* 0, the origin port recorded is "80"; for a Host with another port it is that
\* port; for a CONNECT request the port of the Host is recorded as it is.
C30_OriginPortDefaultedTo80 ==
    tracked.n > 0 =>
        LET h == tracked.req.host
            given == IF h.colon THEN h.port ELSE ""
        IN  /\ (tracked.req.method # "CONNECT" /\ given \in {"", "0"}) =>
                  tracked.op.origin_port = "80"
            /\ given \notin {"", "0"} => tracked.op.origin_port = given
            /\ tracked.req.method = "CONNECT" => tracked.op.origin_port = given
            /\ tracked.op.nextCalls = 1

C30_Witness ==
    /\ tracked.n = 2
    /\ tracked.req.method = "POST"
    /\ tracked.req.host = [name |-> "www.google.com", colon |-> TRUE, port |-> "0"]
    /\ tracked.op.origin_port = "80"

-----------------------------------------------------------------------------
\* C31: a psmux configuration built with padding enabled and
\* PsmuxDisableAggressivePadding set has AggressivePadding and
\* AggressivePaddingRatio zero whatever their overrides, and a positive
\* MaxPaddingRatio or MaxPaddedSize override is still applied; with both
\* switches off each aggressive-padding field holds its positive override or
\* the protocol default.
C31_AggressivePaddingDisableWins ==
    (muxConfig.protocol = "psmux" /\ ~p.PsmuxDisablePadding) =>
        /\ p.PsmuxDisableAggressivePadding =>
              /\ muxConfig.config.AggressivePadding = 0
              /\ muxConfig.config.AggressivePaddingRatio = 0
              /\ p.PsmuxMaxPaddingRatio > 0 =>
                    muxConfig.config.MaxPaddingRatio = p.PsmuxMaxPaddingRatio
              /\ p.PsmuxMaxPaddedSize > 0 =>
                    muxConfig.config.MaxPaddedSize = p.PsmuxMaxPaddedSize
        /\ ~p.PsmuxDisableAggressivePadding =>
              /\ muxConfig.config.AggressivePadding =
                    (IF p.PsmuxAggressivePadding > 0
                     THEN p.PsmuxAggressivePadding ELSE LibraryDefault)
              /\ muxConfig.config.AggressivePaddingRatio =
                    (IF p.PsmuxAggressivePaddingRatio > 0
                     THEN p.PsmuxAggressivePaddingRatio ELSE LibraryDefault)

C31_Witness ==
    /\ muxConfig.protocol = "psmux"
    /\ ~p.PsmuxDisablePadding
    /\ p.PsmuxDisableAggressivePadding
    /\ p.PsmuxAggressivePadding = 2
    /\ p.PsmuxAggressivePaddingRatio = 1
    /\ p.PsmuxMaxPaddingRatio = 1
    /\ p.PsmuxMaxPaddedSize = 2
    /\ muxConfig.config.AggressivePadding = 0
    /\ muxConfig.config.AggressivePaddingRatio = 0
    /\ muxConfig.config.MaxPaddingRatio = 1
    /\ muxConfig.config.MaxPaddedSize = 2

-----------------------------------------------------------------------------
\* The acceptors the builder of a protocol can produce under a configuration.
Acceptors(proto, pp) ==
    {Builder(proto, pp, f).stack :
        f \in {g \in FailPoints : Builder(proto, pp, g).err = NoErr}}

\* The place of a protocol label in the order of the registrations.
TransportIndex(proto) ==
    CHOOSE i \in 1..Len(Transports) : Transports[i].proto = proto

\* The two lists have equal length, entry i of the acceptors was built by the
\* builder of entry i of the labels, and the labels are in registration order.
ListsPaired(ls, protos, pp) ==
    /\ Len(ls) = Len(protos)
    /\ \A i \in 1..Len(protos) : ls[i] \in Acceptors(protos[i], pp)
    /\ \A i \in 1..Len(protos), j \in 1..Len(protos) :
          i < j => TransportIndex(protos[i]) < TransportIndex(protos[j])

\* One register call: the step of ListenAndServe at a registration.
RegisterCall == pc = "register" /\ regIdx <= Len(Transports)

\* C32: after every step the acceptor list and the protocol-label list have
\* equal length and are paired entry by entry in registration order; a
\* register call that succeeds for a non-empty address appends exactly one
\* entry to each list, and a register call whose builder returns an error
\* changes neither list and returns that error.
C32_ListsPairedAndAppendedTogether ==
    [][/\ ListsPaired(allListeners', listenerProtocols', p')
       /\ RegisterCall =>
            LET t == Transports[regIdx]
            IN  \/ /\ err' = NoErr
                   /\ p[t.field] # ""
                   /\ regIdx' = regIdx + 1
                   /\ listenerProtocols' = Append(listenerProtocols, t.proto)
                   /\ \E l \in Acceptors(t.proto, p) :
                         allListeners' = Append(allListeners, l)
                \/ /\ err' = NoErr
                   /\ p[t.field] = ""
                   /\ UNCHANGED <<allListeners, listenerProtocols>>
                \/ /\ err' # NoErr
                   /\ p[t.field] # ""
                   /\ pc' \in {"returned", "exited"}
                   /\ pc' = "returned" => err' = builderErr'
                   /\ UNCHANGED <<allListeners, listenerProtocols>>
       /\ ~RegisterCall => UNCHANGED <<allListeners, listenerProtocols>>]_vars

C32_Witness ==
    /\ pc = "returned"
    /\ err = "Unable to wrap listener with OBFS4"
    /\ err = builderErr
    /\ listenerProtocols = <<"shadowsocks">>
    /\ Len(allListeners) = 1
    /\ allListeners[1] \in Acceptors("shadowsocks", p)

-----------------------------------------------------------------------------
\* The tokens of the users in a map.
TokensOf(userTokens) == {userTokens[u] : u \in DOMAIN userTokens}

HandledSet == pro.n > 0 /\ pro.msg[1] = "USER-SET"
HandledRemove == pro.n > 0 /\ pro.msg[1] = "USER-REMOVE"

\* C33: processUserSetMessage on a message that has not exactly 3 fields, and
\* processUserRemoveMessage on one that has not exactly 2 fields or names a
\* user not in userTokens, return an error and leave userTokens as it was;
\* otherwise SET maps the user to the token of the message and leaves every
\* other user as it was, and REMOVE deletes that user and no other.
C33_SetAndRemoveMessages ==
    /\ HandledSet =>
          IF Len(pro.msg) # 3
          THEN pro.err # NoErr /\ pro.userTokens = pro.before
          ELSE /\ pro.err = NoErr
               /\ DOMAIN pro.userTokens = DOMAIN pro.before \cup {pro.msg[2]}
               /\ pro.userTokens[pro.msg[2]] = pro.msg[3]
               /\ \A u \in DOMAIN pro.before \ {pro.msg[2]} :
                     pro.userTokens[u] = pro.before[u]
    /\ HandledRemove =>
          IF Len(pro.msg) # 2 \/ pro.msg[2] \notin DOMAIN pro.before
          THEN pro.err # NoErr /\ pro.userTokens = pro.before
          ELSE /\ pro.err = NoErr
               /\ DOMAIN pro.userTokens = DOMAIN pro.before \ {pro.msg[2]}
               /\ \A u \in DOMAIN pro.userTokens : pro.userTokens[u] = pro.before[u]

C33_Witness ==
    /\ pro.msg = <<"USER-SET", "u1", "t2">>
    /\ pro.before = [u \in ProUsers |-> "t1"]
    /\ pro.userTokens = [u \in ProUsers |-> IF u = "u1" THEN "t2" ELSE "t1"]
    /\ pro.err = NoErr

-----------------------------------------------------------------------------
\* The message handled last has the wrong number of fields for its type.
Malformed ==
    \/ HandledSet /\ Len(pro.msg) # 3
    \/ HandledRemove /\ Len(pro.msg) # 2

\* The message handled last was a USER-SET or USER-REMOVE that was applied.
Applied == (HandledSet \/ HandledRemove) /\ pro.err = NoErr

FilterInStep == pro.proFilter.tokens = TokensOf(pro.userTokens)

FilterUnchanged == pro.proFilter.tokens = pro.start.proFilter.tokens

\* C34 as stated: after a well-formed USER-SET or USER-REMOVE has been handled
\* the filter's token set is exactly the tokens of the users in userTokens,
\* and a malformed message leaves the filter's token set unchanged.
C34_FilterInStepMalformedUnchanged ==
    /\ Applied => FilterInStep
    /\ Malformed => FilterUnchanged

\* C34, amended: after a USER-SET or USER-REMOVE has been applied the filter's
\* token set is exactly the tokens of the users in userTokens; a USER-REMOVE
\* that is malformed or names an unknown user, and a malformed USER-SET read
\* while userTokens has a user, leave the filter's token set unchanged; a
\* malformed USER-SET read while userTokens is empty leaves it unchanged or,
\* when the initialization it runs fetched users, holding their tokens.
C34_FilterInStepMalformedUnchangedUnlessInitialized ==
    /\ Applied => FilterInStep
    /\ (HandledRemove /\ pro.err # NoErr) => FilterUnchanged
    /\ (HandledSet /\ pro.err # NoErr) =>
          IF DOMAIN pro.start.userTokens = {} /\ DOMAIN pro.userTokens # {}
          THEN FilterInStep
          ELSE FilterUnchanged

C34_Witness ==
    /\ pro.msg = <<"USER-SET", "u1", "t2">>
    /\ pro.start.userTokens = [u \in {"u1"} |-> "t1"]
    /\ pro.start.proFilter.tokens = {"t1"}
    /\ pro.userTokens = [u \in {"u1"} |-> "t2"]
    /\ pro.proFilter.tokens = {"t2"}

-----------------------------------------------------------------------------
\* C35: starting from a disabled pro filter without tokens, after any
\* sequence of USER-SET, USER-REMOVE, TURN-PRO and TURN-FREE messages and
\* whatever the fetches of initialization return, the pro filter never holds
\* a token while it is disabled.
C35_NoTokensWhileDisabled ==
    ~pro.proFilter.enabled => pro.proFilter.tokens = {}

-----------------------------------------------------------------------------
\* C36: when the origin dialer returns, on each of its three paths, both
\* operations it began, dial_origin and resolve_origin, have been ended.
C36_EveryOperationBegunIsEnded ==
    (dialer.pc = "idle" /\ dialer.n > 0) =>
        /\ dialer.begun = {"dial_origin", "resolve_origin"}
        /\ dialer.ended = dialer.begun

-----------------------------------------------------------------------------
\* C37: with ENHTTPAddr set, ListenAndServe serves the encapsulated-HTTP
\* listener only: createFilterChain is never called, no transport is
\* registered or served whatever addresses are set, and the chain served is
\* the token filter followed by ping, applied from the token filter on to
\* every request of a connection, the first and the later ones alike.
C37_ENHTTPServesOnlyTokenThenPing ==
    configured.ENHTTPAddr # "" =>
        /\ pc \in {"start", "setup", "enhttp", "returned"}
        /\ built = <<>>
        /\ builderCalls = {}
        /\ allListeners = <<>>
        /\ listenerProtocols = <<>>
        /\ tasks = <<>>
        /\ pc = "enhttp" =>
              /\ filterChain = <<[name |-> "tokenfilter", firstOnly |-> FALSE],
                                 [name |-> "ping", firstOnly |-> FALSE]>>
              /\ last.n > 0 =>
                    /\ last.bypassed = <<>>
                    /\ last.dialed = "none"
                    /\ last.applied = IF last.stoppedBy = "tokenfilter"
                                      THEN <<"tokenfilter">>
                                      ELSE <<"tokenfilter", "ping">>

C37_Witness ==
    /\ configured.ENHTTPAddr # ""
    /\ configured.HTTPAddr # ""
    /\ configured.QUICIETFAddr # ""
    /\ configured.WSSAddr # ""
    /\ pc = "enhttp"
    /\ last.n = 2
    /\ ~last.first
    /\ last.applied = <<"tokenfilter", "ping">>
    /\ last.stoppedBy = "none"

=============================================================================
